---- MODULE Spec2Model ----
(***************************************************************************)
(* Workspace boundary resolver and safe file-mutation primitives of the    *)
(* deployagent repository: Resolve / resolveSymlink / isWithinWorkspace,   *)
(* WriteFile, EditFileTool.Run, ReadFileTool.Run and writeFileAtomic.      *)
(*                                                                         *)
(* A path is a sequence of component names; <<>> is "/".  String-level     *)
(* tests of the source (strings.HasPrefix) are computed on the character   *)
(* sequence of the path, see PathStr.                                      *)
(***************************************************************************)
EXTENDS Integers, Sequences, FiniteSets, TLC

VARIABLES
    fs,         \* the filesystem: real absolute path -> node
    lstatErr,   \* how the FileSystem implementation reports a missing entry
    rIn,        \* the path given to the last Resolve call
    rOut,       \* the result of the last Resolve call (err "unset" before one)
    walk,       \* the loop variables of a resolveSymlink call in progress
    cache,      \* the checksum cache: resolved absolute path -> checksum
    proc,       \* the Read / Write / Edit call each caller is running
    extLeft,    \* how many changes the external actor may still make
    log,        \* the responses a caller has received, in order
    sto,        \* the lock of the checksum store and the store calls in progress
    ctxs,       \* the workspace contexts made, and the checksum caches they hold
    bin,        \* the content last given to the binary detectors, and their answers
    extLast,    \* the last rewrite of /w/f by another program, and where caller 1 was
    lp,         \* the agent loop: its position, session, events and provider calls
    ex          \* ExecuteWithTimeout: its position, the process, context and timers

vars == <<fs, lstatErr, rIn, rOut, walk, cache, proc, extLeft, log, sto, ctxs, bin, extLast, lp, ex>>

(***************************************************************************)
(* Strings and paths                                                       *)
(***************************************************************************)

\* the characters of a component name; "w2" shares the prefix "w"
NameChars(n) == IF n = "w2" THEN <<"w", "2">> ELSE <<n>>

RECURSIVE PathStrFrom(_)
PathStrFrom(p) ==
    IF p = <<>> THEN <<>>
    ELSE <<"/">> \o NameChars(Head(p)) \o PathStrFrom(Tail(p))

\* the string of an absolute clean path
PathStr(p) == IF p = <<>> THEN <<"/">> ELSE PathStrFrom(p)

\* strings.HasPrefix
HasPrefix(s, pre) == Len(pre) <= Len(s) /\ SubSeq(s, 1, Len(pre)) = pre

Last(s) == s[Len(s)]
Front(s) == SubSeq(s, 1, Len(s) - 1)

\* filepath.Dir of an absolute clean path
Dir(p) == IF p = <<>> THEN <<>> ELSE Front(p)

\* filepath.Clean on the components of a path: drops "" and ".", removes
\* "x/.." lexically, drops ".." at the root of an absolute path and keeps
\* leading ".." of a relative one
RECURSIVE CleanFrom(_, _, _)
CleanFrom(acc, rest, isAbs) ==
    IF rest = <<>> THEN acc
    ELSE LET c == Head(rest) IN
         IF c = "" \/ c = "." THEN CleanFrom(acc, Tail(rest), isAbs)
         ELSE IF c = ".."
              THEN IF acc # <<>> /\ Last(acc) # ".."
                   THEN CleanFrom(Front(acc), Tail(rest), isAbs)
                   ELSE IF isAbs THEN CleanFrom(acc, Tail(rest), isAbs)
                        ELSE CleanFrom(Append(acc, c), Tail(rest), isAbs)
              ELSE CleanFrom(Append(acc, c), Tail(rest), isAbs)

Clean(p) == [abs |-> p.abs, parts |-> CleanFrom(<<>>, p.parts, p.abs)]

\* filepath.Join(dir, rel...) for an absolute dir: concatenate and Clean
JoinAbs(dir, parts) == CleanFrom(<<>>, dir \o parts, TRUE)

\* length of the longest common prefix of two component sequences
RECURSIVE CommonLen(_, _)
CommonLen(a, b) ==
    IF a = <<>> \/ b = <<>> \/ Head(a) # Head(b) THEN 0
    ELSE 1 + CommonLen(Tail(a), Tail(b))

\* filepath.Rel(base, target) for two absolute clean paths, as components
\* ("." is the empty sequence); it cannot fail for two absolute paths
Rel(base, target) ==
    LET k == CommonLen(base, target) IN
    [i \in 1..(Len(base) - k) |-> ".."] \o SubSeq(target, k + 1, Len(target))

\* the string of a relative path given by components ("." when empty)
RECURSIVE RelStrFrom(_)
RelStrFrom(r) ==
    IF r = <<>> THEN <<>>
    ELSE (IF Head(r) = ".." THEN <<".", ".">> ELSE NameChars(Head(r)))
         \o (IF Tail(r) = <<>> THEN <<>> ELSE <<"/">> \o RelStrFrom(Tail(r)))

RelStr(r) == IF r = <<>> THEN <<".">> ELSE RelStrFrom(r)

(***************************************************************************)
(* The workspace                                                           *)
(***************************************************************************)

WorkspaceRoot == <<"w">>
HomeDir == <<"h">>

\* isWithinWorkspace(path, workspaceRoot)
isWithinWorkspace(path, workspaceRoot) ==
    LET rel == RelStr(Rel(workspaceRoot, path))
        workspaceRootWithSep == PathStr(workspaceRoot) \o <<"/">>
    IN  \/ path = workspaceRoot
        \/ /\ ~HasPrefix(rel, <<".", ".">>)
           /\ \/ HasPrefix(PathStr(path), workspaceRootWithSep)
              \/ path = workspaceRoot

(***************************************************************************)
(* The filesystem (OSFileSystem over the operating system's tree)          *)
(***************************************************************************)

NoTarget == [abs |-> TRUE, parts |-> <<>>]
DirNode == [kind |-> "dir", content |-> <<>>, perm |-> 7, target |-> NoTarget]
FileNode(c, perm) == [kind |-> "file", content |-> c, perm |-> perm, target |-> NoTarget]
LinkNode(t) == [kind |-> "link", content |-> <<>>, perm |-> 7, target |-> t]
Absent == [kind |-> "absent", content |-> <<>>, perm |-> 0, target |-> NoTarget]

Node(p) == IF p \in DOMAIN fs THEN fs[p] ELSE Absent

\* the number of symlinks the kernel follows in one lookup before ELOOP
\* (40 on Linux; every loop-free walk of the filesystems below follows fewer)
KernelMaxLinks == 8

\* The kernel's path walk from directory cur over the components rest.
\* Symlinks in non-final positions are always followed; the final component
\* is followed only when follow is TRUE (stat) and not when it is FALSE
\* (lstat, readlink, rename, mkdir).  The result names the real location.
RECURSIVE KWalk(_, _, _, _)
KWalk(cur, rest, follow, fuel) ==
    IF rest = <<>> THEN [err |-> "none", loc |-> cur]
    ELSE LET c == Head(rest)
             r == Tail(rest)
             q == Append(cur, c)
             n == Node(q)
         IN  IF c = "." \/ c = "" THEN KWalk(cur, r, follow, fuel)
             ELSE IF c = ".." THEN KWalk(Dir(cur), r, follow, fuel)
             ELSE IF n.kind = "absent"
                  THEN IF r = <<>> THEN [err |-> "none", loc |-> q]
                       ELSE [err |-> "notexist", loc |-> q]
             ELSE IF n.kind = "file"
                  THEN IF r = <<>> THEN [err |-> "none", loc |-> q]
                       ELSE [err |-> "notdir", loc |-> q]
             ELSE IF n.kind = "dir" THEN KWalk(q, r, follow, fuel)
             ELSE IF r = <<>> /\ ~follow THEN [err |-> "none", loc |-> q]
             ELSE IF fuel = 0 THEN [err |-> "loop", loc |-> q]
             ELSE KWalk(IF n.target.abs THEN <<>> ELSE cur,
                        n.target.parts \o r, follow, fuel - 1)

\* where the operating system arrives when it is given the absolute path p
RealLoc(p, follow) == KWalk(<<>>, p, follow, KernelMaxLinks)

\* the answer of a stat system call whose path walk ended as k
EntryAt(k) ==
    IF k.err # "none" THEN [err |-> k.err, node |-> Absent]
    ELSE IF Node(k.loc).kind = "absent" THEN [err |-> "notexist", node |-> Absent]
    ELSE [err |-> "none", node |-> Node(k.loc)]

\* FileSystem.Lstat: the entry at p, the final component not followed
Lstat(p) == EntryAt(RealLoc(p, FALSE))

\* FileSystem.Stat: the entry at p, every symlink followed
Stat(p) == EntryAt(RealLoc(p, TRUE))

\* FileSystem.Readlink: the target stored in the symlink at p
Readlink(p) == Lstat(p).node.target

\* err == os.ErrNotExist: true of the bare sentinel only; os.Lstat wraps the
\* cause in a *PathError, the in-memory implementation returns the sentinel
IsErrNotExist(e) == e = "notexist" /\ lstatErr = "sentinel"

(***************************************************************************)
(* Resolve                                                                 *)
(***************************************************************************)

maxHops == 64

Fail(e) == [kind |-> "err", err |-> e, path |-> <<>>]
Break(p) == [kind |-> "break", err |-> "none", path |-> p]
Return(p) == [kind |-> "return", err |-> "none", path |-> p]

\* The symlink-chain loop that validates only the end of the chain, not each
\* hop's target
RECURSIVE FollowChainToEnd(_, _, _, _, _, _)
FollowChainToEnd(current, visited, hopCount, parts, i, currentAbs) ==
    IF hopCount > maxHops THEN Fail("SymlinkChainTooLong")
    ELSE IF current \in visited THEN Fail("SymlinkLoop")
    ELSE LET OnLstat(st) ==
                 IF st.err # "none"
                 THEN IF IsErrNotExist(st.err) THEN Break(current) ELSE Fail("IOError")
                 ELSE IF st.node.kind # "link"
                      THEN IF ~isWithinWorkspace(current, WorkspaceRoot)
                           THEN Fail("OutsideWorkspace")
                           ELSE Break(current)
                      ELSE FollowChainToEnd(
                               IF st.node.target.abs
                               THEN CleanFrom(<<>>, st.node.target.parts, TRUE)
                               ELSE JoinAbs(Dir(current), st.node.target.parts),
                               visited \cup {current}, hopCount + 1, parts, i, currentAbs)
         IN  OnLstat(Lstat(current))

\* The symlink-chain loop that stops at a path it has visited, without an error
RECURSIVE FollowChainStopOnRevisit(_, _, _, _, _, _)
FollowChainStopOnRevisit(current, visited, hopCount, parts, i, currentAbs) ==
    IF hopCount > maxHops THEN Fail("SymlinkChainTooLong")
    ELSE IF current \in visited THEN Break(current)
    ELSE LET OnLstat(st) ==
         IF st.err # "none"
         THEN IF IsErrNotExist(st.err) THEN Break(current) ELSE Fail("IOError")
         ELSE IF st.node.kind # "link"
              THEN IF ~isWithinWorkspace(current, WorkspaceRoot)
                   THEN Fail("OutsideWorkspace")
                   ELSE Break(current)
              ELSE LET Hop(targetAbs) ==
                           IF ~isWithinWorkspace(targetAbs, WorkspaceRoot)
                           THEN Fail("OutsideWorkspace")
                           ELSE FollowChainStopOnRevisit(targetAbs, visited \cup {current},
                                                         hopCount + 1, parts, i, currentAbs)
                       OnReadlink(linkTarget) ==
                           Hop(IF linkTarget.abs
                               THEN CleanFrom(<<>>, linkTarget.parts, TRUE)
                               ELSE JoinAbs(Dir(current), linkTarget.parts))
                   IN  OnReadlink(Readlink(current))
         IN  OnLstat(Lstat(current))

\* The symlink-chain loop of resolveSymlink for component i of parts:
\* "break" leaves the loop with the new currentAbs, "return" and "err"
\* leave resolveSymlink.
RECURSIVE FollowChain(_, _, _, _, _, _)
FollowChain(current, visited, hopCount, parts, i, currentAbs) ==
    IF hopCount > maxHops THEN Fail("SymlinkChainTooLong")
    ELSE IF current \in visited THEN Fail("SymlinkLoop")
    ELSE LET OnLstat(st) ==
         IF st.err # "none"
         THEN IF IsErrNotExist(st.err)
              THEN IF current = WorkspaceRoot THEN Break(current)
                   ELSE IF i < Len(parts)
                        THEN LET Remaining(full) ==
                                     IF ~isWithinWorkspace(full, WorkspaceRoot)
                                     THEN Fail("OutsideWorkspace")
                                     ELSE Return(full)
                             IN  Remaining(JoinAbs(currentAbs, SubSeq(parts, i, Len(parts))))
                        ELSE IF currentAbs # WorkspaceRoot
                                /\ ~isWithinWorkspace(currentAbs, WorkspaceRoot)
                             THEN Fail("OutsideWorkspace")
                             ELSE Break(current)
              ELSE Fail("IOError")
         ELSE IF st.node.kind # "link"
              THEN IF ~isWithinWorkspace(current, WorkspaceRoot)
                   THEN Fail("OutsideWorkspace")
                   ELSE Break(current)
              ELSE LET Hop(targetAbs) ==
                           IF ~isWithinWorkspace(targetAbs, WorkspaceRoot)
                           THEN Fail("OutsideWorkspace")
                           ELSE FollowChain(targetAbs, visited \cup {current},
                                            hopCount + 1, parts, i, currentAbs)
                       OnReadlink(linkTarget) ==
                           Hop(IF linkTarget.abs
                               THEN CleanFrom(<<>>, linkTarget.parts, TRUE)
                               ELSE JoinAbs(Dir(current), linkTarget.parts))
                   IN  OnReadlink(Readlink(current))
         IN  OnLstat(Lstat(current))

\* The component loop of resolveSymlink, from component i with accumulator
\* currentAbs
RECURSIVE WalkParts(_, _, _)
WalkParts(parts, i, currentAbs) ==
    IF i > Len(parts)
    THEN IF ~isWithinWorkspace(currentAbs, WorkspaceRoot)
         THEN Fail("OutsideWorkspace")
         ELSE Return(currentAbs)
    ELSE IF parts[i] = "" \/ parts[i] = "." THEN WalkParts(parts, i + 1, currentAbs)
    ELSE IF parts[i] = ".."
         THEN IF currentAbs = <<>> THEN Fail("OutsideWorkspace")
              ELSE IF ~isWithinWorkspace(Dir(currentAbs), WorkspaceRoot)
                   THEN Fail("OutsideWorkspace")
                   ELSE WalkParts(parts, i + 1, Dir(currentAbs))
    ELSE LET OnChain(r) ==
                 IF r.kind # "break" THEN r
                 ELSE IF ~isWithinWorkspace(r.path, WorkspaceRoot)
                      THEN Fail("OutsideWorkspace")
                      ELSE WalkParts(parts, i + 1, r.path)
         IN  OnChain(FollowChain(Append(currentAbs, parts[i]), {}, 0, parts, i, currentAbs))

\* resolveSymlink that checks the path as written and never looks at the
\* filesystem
resolveSymlinkLexical(path) ==
    IF isWithinWorkspace(path, WorkspaceRoot) THEN Return(path)
    ELSE Fail("OutsideWorkspace")

\* resolveSymlink(ctx, path) for an absolute path
resolveSymlink(path) == WalkParts(path, 1, <<>>)

\* A user path: "~/"-prefixed, absolute or relative, with its components
UserPath(tilde, isAbs, parts) == [tilde |-> tilde, abs |-> isAbs, parts |-> parts]

\* Resolve with the containment test written as a bare string-prefix test on
\* the cleaned path
ResolveByPrefix(path) ==
    LET Joined(abs0) ==
            IF HasPrefix(PathStr(abs0), PathStr(WorkspaceRoot))
            THEN [err |-> "none", abs |-> abs0, rel |-> Rel(WorkspaceRoot, abs0)]
            ELSE [err |-> "OutsideWorkspace", abs |-> <<>>, rel |-> <<>>]
        Absolute(cleaned) ==
            Joined(IF cleaned.abs THEN cleaned.parts
                   ELSE JoinAbs(WorkspaceRoot, cleaned.parts))
    IN  Absolute(Clean(IF path.tilde
                       THEN [abs |-> TRUE, parts |-> JoinAbs(HomeDir, path.parts)]
                       ELSE [abs |-> path.abs, parts |-> path.parts]))

\* Resolve(ctx, path): [err, abs, rel]
Resolve(path) ==
    LET Relative(res, rel) ==
            IF res.kind = "err" THEN [err |-> res.err, abs |-> <<>>, rel |-> <<>>]
            ELSE IF \E k \in 1..Len(rel) : rel[k] = ".."
                 THEN [err |-> "OutsideWorkspace", abs |-> <<>>, rel |-> <<>>]
                 ELSE [err |-> "none", abs |-> res.path, rel |-> rel]
        Resolved(res) == Relative(res, Rel(WorkspaceRoot, res.path))
        Absolute(cleaned) ==
            Resolved(resolveSymlink(IF cleaned.abs THEN cleaned.parts
                                    ELSE JoinAbs(WorkspaceRoot, cleaned.parts)))
    IN  Absolute(Clean(IF path.tilde
                       THEN [abs |-> TRUE, parts |-> JoinAbs(HomeDir, path.parts)]
                       ELSE [abs |-> path.abs, parts |-> path.parts]))

(***************************************************************************)
(* Filesystems and user paths the resolver is checked on                  *)
(***************************************************************************)

AbsT(parts) == [abs |-> TRUE, parts |-> parts]
RelT(parts) == [abs |-> FALSE, parts |-> parts]

\* /w is the workspace root; /o, /w2 and /h lie outside it
BaseFs ==
    (<<>> :> DirNode) @@ (<<"w">> :> DirNode) @@ (<<"o">> :> DirNode)
    @@ (<<"w2">> :> DirNode) @@ (<<"h">> :> DirNode)
    @@ (<<"o", "t">> :> FileNode(<<"s">>, 6))
    @@ (<<"w", "d">> :> DirNode)
    @@ (<<"w", "d", "f">> :> FileNode(<<"a">>, 6))
    @@ (<<"w", "f">> :> FileNode(<<"a">>, 6))

\* what the symlinks /w/l1 and /w/l2 may point to
LinkTargets ==
    { AbsT(<<"w", "l1">>), AbsT(<<"w", "l2">>), AbsT(<<"o">>), AbsT(<<"o", "t">>),
      AbsT(<<"w", "d">>), AbsT(<<"w", "f">>), AbsT(<<"w", "l2", "f">>),
      AbsT(<<"w", "l2", "t">>), AbsT(<<"w", "l2", "m">>), AbsT(<<"w2">>),
      AbsT(<<"w", "m">>), AbsT(<<"o", "b">>),
      RelT(<<"..">>), RelT(<<"d", "f">>), RelT(<<"l2">>) }

SlotNodes == {Absent} \cup {LinkNode(t) : t \in LinkTargets}

\* /o/b, when present, points back into the workspace
BackNodes == {Absent, LinkNode(AbsT(<<"w", "f">>))}

WithNode(f, p, n) == IF n.kind = "absent" THEN f ELSE (p :> n) @@ f

ResolveFs ==
    { WithNode(WithNode(WithNode(BaseFs, <<"w", "l1">>, n1), <<"w", "l2">>, n2),
               <<"o", "b">>, nb)
      : n1 \in SlotNodes, n2 \in SlotNodes, nb \in BackNodes }

ResolveInputs ==
    { UserPath(FALSE, FALSE, <<"l1">>), UserPath(FALSE, FALSE, <<"l2">>),
      UserPath(FALSE, FALSE, <<"l1", "f">>), UserPath(FALSE, FALSE, <<"l1", "x", "y">>),
      UserPath(FALSE, FALSE, <<"f">>), UserPath(FALSE, FALSE, <<"d", "f">>),
      UserPath(FALSE, FALSE, <<"d", "..", "l1">>), UserPath(FALSE, FALSE, <<"m", "n">>),
      UserPath(FALSE, FALSE, <<>>), UserPath(FALSE, FALSE, <<".">>),
      UserPath(FALSE, FALSE, <<"..", "o", "t">>), UserPath(FALSE, FALSE, <<"..", "w2">>),
      UserPath(FALSE, FALSE, <<"..", "w2", "x">>), UserPath(FALSE, FALSE, <<"..", "w", "f">>),
      UserPath(FALSE, FALSE, <<"..", "..", "o", "t">>),
      UserPath(FALSE, TRUE, <<"o", "t">>), UserPath(FALSE, TRUE, <<"w", "f">>),
      UserPath(FALSE, TRUE, <<"w2">>), UserPath(FALSE, TRUE, <<"w">>),
      UserPath(FALSE, TRUE, <<>>), UserPath(TRUE, FALSE, <<"x">>),
      UserPath(TRUE, FALSE, <<"..", "w", "f">>),
      UserPath(FALSE, FALSE, <<"..", "z", "p">>), UserPath(FALSE, TRUE, <<"z">>),
      UserPath(FALSE, FALSE, <<"n">>), UserPath(FALSE, FALSE, <<"d", "..">>) }

NoResult == [err |-> "unset", abs |-> <<>>, rel |-> <<>>]

\* no workspace context made yet: made lists the contexts, heap holds the
\* checksum cache instances, used the paths each context was used on
NoContexts == [made |-> <<>>, heap |-> <<>>, used |-> <<>>]

\* ExecuteWithTimeout not called yet: the process runs, the context is live;
\* order lists what happened to them and to the timers, calls the calls made
\* on the process
NoExec == [pc |-> "none", waitErr |-> "nil", exited |-> FALSE, cancelled |-> FALSE,
           waited |-> FALSE, order |-> <<>>, calls |-> <<>>, ret |-> "none"]

\* no Loop made yet
NoLoop == [pc |-> "none", maxIterations |-> 0, hasEvents |-> FALSE, i |-> 0,
           session |-> <<>>, events |-> <<>>, calls |-> 0, toolCalls |-> 0,
           cancelled |-> FALSE, ret |-> "none"]

\* /w/f not rewritten by another program so far
NoExt == [during |-> "none", wrote |-> <<>>, over |-> <<>>]

\* no content given to the binary detectors yet
NoDetection == [content |-> <<>>, tools |-> FALSE, services |-> FALSE, asked |-> FALSE]

\* the checksum store unlocked, no store call in progress
NoStoreCall == [pc |-> "idle", kind |-> "none", path |-> <<>>,
                sum |-> [sha256 |-> <<>>], ret |-> [ok |-> FALSE, sum |-> [sha256 |-> <<>>]],
                expect |-> [ok |-> FALSE, sum |-> [sha256 |-> <<>>]], n |-> 0]
NoStore == [w |-> 0, r |-> {}, call |-> [p \in {1, 2} |-> NoStoreCall], lin |-> <<>>]

\* no resolveSymlink call in progress
NoWalk == [pc |-> "idle", parts |-> <<>>, i |-> 0, currentAbs |-> <<>>,
           current |-> <<>>, visited |-> {}, hopCount |-> 0]

(***************************************************************************)
(* SpecResolve: Resolve applied to every filesystem and path above         *)
(***************************************************************************)

InitResolve ==
    /\ fs \in ResolveFs
    /\ lstatErr \in {"sentinel", "wrapped"}
    /\ rIn = UserPath(FALSE, FALSE, <<>>)
    /\ rOut = NoResult
    /\ walk = NoWalk
    /\ cache = <<>>
    /\ proc = <<>>
    /\ extLeft = 0
    /\ log = <<>>
    /\ sto = NoStore
    /\ ctxs = NoContexts
    /\ bin = NoDetection
    /\ extLast = NoExt
    /\ lp = NoLoop
    /\ ex = NoExec

DoResolve ==
    \E path \in ResolveInputs :
        /\ rOut.err = "unset"
        /\ rIn' = path
        /\ rOut' = Resolve(path)
        /\ UNCHANGED <<fs, lstatErr, walk, cache, proc, extLeft, log, sto, ctxs, bin, extLast, lp, ex>>

NextResolve == DoResolve

SpecResolve == InitResolve /\ [][NextResolve]_vars

(***************************************************************************)
(* resolveSymlink run one loop iteration at a time, on long symlink chains *)
(***************************************************************************)

\* the longest chain of symlinks the filesystems below hold
MaxChain == 66

\* the name of the k-th link of a chain
CName(k) == "c" \o ToString(k)

\* the place of a link of the chain among its links
CIndex(p, n) == CHOOSE k \in 1..n : p = <<"w", CName(k)>>

\* /w/c1 -> /w/c2 -> ... -> /w/cn -> end, with absolute or relative targets
ChainFs(n, end, isAbs) ==
    [p \in {<<"w", CName(k)>> : k \in 1..n} |->
        LinkNode(IF CIndex(p, n) = n
                 THEN AbsT(end)
                 ELSE IF isAbs THEN AbsT(<<"w", CName(CIndex(p, n) + 1)>>)
                      ELSE RelT(<<CName(CIndex(p, n) + 1)>>))] @@ BaseFs

\* where the chains end: a file, a directory, a missing entry
ChainEnds == { <<"w", "f">>, <<"w", "d">>, <<"w", "m">> }

ChainInputs == { UserPath(FALSE, FALSE, <<"c1">>),
                 UserPath(FALSE, FALSE, <<"c1", "f">>) }

\* the chain loop with the hop limit tested with >= instead of >
ChainIterOffByOne(current, visited, hopCount, parts, i, currentAbs) ==
    IF hopCount >= maxHops THEN Fail("SymlinkChainTooLong")
    ELSE IF current \in visited THEN Fail("SymlinkLoop")
    ELSE LET OnLstat(st) ==
         IF st.err # "none"
         THEN IF IsErrNotExist(st.err) THEN Break(current) ELSE Fail("IOError")
         ELSE IF st.node.kind # "link"
              THEN IF ~isWithinWorkspace(current, WorkspaceRoot)
                   THEN Fail("OutsideWorkspace")
                   ELSE Break(current)
              ELSE LET Hop(targetAbs) ==
                           IF ~isWithinWorkspace(targetAbs, WorkspaceRoot)
                           THEN Fail("OutsideWorkspace")
                           ELSE [kind |-> "hop", err |-> "none", path |-> targetAbs]
                       OnReadlink(linkTarget) ==
                           Hop(IF linkTarget.abs
                               THEN CleanFrom(<<>>, linkTarget.parts, TRUE)
                               ELSE JoinAbs(Dir(current), linkTarget.parts))
                   IN  OnReadlink(Readlink(current))
         IN  OnLstat(Lstat(current))

\* One iteration of the symlink-chain loop of resolveSymlink: as FollowChain,
\* but a followed link is answered with "hop" and the target to continue from.
ChainIter(current, visited, hopCount, parts, i, currentAbs) ==
    IF hopCount > maxHops THEN Fail("SymlinkChainTooLong")
    ELSE IF current \in visited THEN Fail("SymlinkLoop")
    ELSE LET OnLstat(st) ==
         IF st.err # "none"
         THEN IF IsErrNotExist(st.err)
              THEN IF current = WorkspaceRoot THEN Break(current)
                   ELSE IF i < Len(parts)
                        THEN LET Remaining(full) ==
                                     IF ~isWithinWorkspace(full, WorkspaceRoot)
                                     THEN Fail("OutsideWorkspace")
                                     ELSE Return(full)
                             IN  Remaining(JoinAbs(currentAbs, SubSeq(parts, i, Len(parts))))
                        ELSE IF currentAbs # WorkspaceRoot
                                /\ ~isWithinWorkspace(currentAbs, WorkspaceRoot)
                             THEN Fail("OutsideWorkspace")
                             ELSE Break(current)
              ELSE Fail("IOError")
         ELSE IF st.node.kind # "link"
              THEN IF ~isWithinWorkspace(current, WorkspaceRoot)
                   THEN Fail("OutsideWorkspace")
                   ELSE Break(current)
              ELSE LET Hop(targetAbs) ==
                           IF ~isWithinWorkspace(targetAbs, WorkspaceRoot)
                           THEN Fail("OutsideWorkspace")
                           ELSE [kind |-> "hop", err |-> "none", path |-> targetAbs]
                       OnReadlink(linkTarget) ==
                           Hop(IF linkTarget.abs
                               THEN CleanFrom(<<>>, linkTarget.parts, TRUE)
                               ELSE JoinAbs(Dir(current), linkTarget.parts))
                   IN  OnReadlink(Readlink(current))
         IN  OnLstat(Lstat(current))

\* what Resolve returns once resolveSymlink has answered res
ResolveTail(res) ==
    LET Relative(rel) ==
            IF res.kind = "err" THEN [err |-> res.err, abs |-> <<>>, rel |-> <<>>]
            ELSE IF \E k \in 1..Len(rel) : rel[k] = ".."
                 THEN [err |-> "OutsideWorkspace", abs |-> <<>>, rel |-> <<>>]
                 ELSE [err |-> "none", abs |-> res.path, rel |-> rel]
    IN  Relative(Rel(WorkspaceRoot, res.path))

WalkDone == [walk EXCEPT !.pc = "done"]

InitChain ==
    /\ \E n \in 0..MaxChain, end \in ChainEnds, isAbs \in BOOLEAN :
           fs = ChainFs(n, end, isAbs)
    /\ lstatErr \in {"sentinel", "wrapped"}
    /\ rIn = UserPath(FALSE, FALSE, <<>>)
    /\ rOut = NoResult
    /\ walk = NoWalk
    /\ cache = <<>>
    /\ proc = <<>>
    /\ extLeft = 0
    /\ log = <<>>
    /\ sto = NoStore
    /\ ctxs = NoContexts
    /\ bin = NoDetection
    /\ extLast = NoExt
    /\ lp = NoLoop
    /\ ex = NoExec

\* Resolve up to its call of resolveSymlink, and resolveSymlink up to its
\* component loop
ChainCall ==
    /\ walk.pc = "idle"
    /\ \E path \in ChainInputs :
        LET Absolute(cleaned) ==
                IF cleaned.abs THEN cleaned.parts
                ELSE JoinAbs(WorkspaceRoot, cleaned.parts)
        IN  /\ rIn' = path
            /\ walk' = [NoWalk EXCEPT !.pc = "component", !.i = 1,
                          !.parts = Absolute(Clean(
                              IF path.tilde
                              THEN [abs |-> TRUE, parts |-> JoinAbs(HomeDir, path.parts)]
                              ELSE [abs |-> path.abs, parts |-> path.parts]))]
    /\ UNCHANGED <<fs, lstatErr, rOut, cache, proc, extLeft, log, sto, ctxs, bin, extLast, lp, ex>>

\* The head of one iteration of the component loop, or the end of the loop
ComponentStep ==
    /\ walk.pc = "component"
    /\ LET Go(parts, i, currentAbs) ==
            IF i > Len(parts)
            THEN /\ rOut' = ResolveTail(IF ~isWithinWorkspace(currentAbs, WorkspaceRoot)
                                        THEN Fail("OutsideWorkspace")
                                        ELSE Return(currentAbs))
                 /\ walk' = WalkDone
            ELSE IF parts[i] = "" \/ parts[i] = "."
            THEN /\ walk' = [walk EXCEPT !.i = i + 1]
                 /\ rOut' = rOut
            ELSE IF parts[i] = ".."
            THEN IF currentAbs = <<>> \/ ~isWithinWorkspace(Dir(currentAbs), WorkspaceRoot)
                 THEN /\ rOut' = ResolveTail(Fail("OutsideWorkspace"))
                      /\ walk' = WalkDone
                 ELSE /\ walk' = [walk EXCEPT !.i = i + 1, !.currentAbs = Dir(currentAbs)]
                      /\ rOut' = rOut
            ELSE /\ walk' = [walk EXCEPT !.pc = "chain",
                                         !.current = Append(currentAbs, parts[i]),
                                         !.visited = {}, !.hopCount = 0]
                 /\ rOut' = rOut
       IN  Go(walk.parts, walk.i, walk.currentAbs)
    /\ UNCHANGED <<fs, lstatErr, rIn, cache, proc, extLeft, log, sto, ctxs, bin, extLast, lp, ex>>

\* One iteration of the symlink-chain loop, with the validation that follows
\* the loop when the iteration leaves it
HopStep ==
    /\ walk.pc = "chain"
    /\ LET Go(r) ==
            IF r.kind = "hop"
            THEN /\ walk' = [walk EXCEPT !.current = r.path,
                                         !.visited = @ \cup {walk.current},
                                         !.hopCount = @ + 1]
                 /\ rOut' = rOut
            ELSE IF r.kind = "break" /\ isWithinWorkspace(r.path, WorkspaceRoot)
            THEN /\ walk' = [walk EXCEPT !.pc = "component", !.i = @ + 1,
                                         !.currentAbs = r.path]
                 /\ rOut' = rOut
            ELSE /\ rOut' = ResolveTail(IF r.kind = "break"
                                        THEN Fail("OutsideWorkspace") ELSE r)
                 /\ walk' = WalkDone
       IN  Go(ChainIter(walk.current, walk.visited, walk.hopCount,
                        walk.parts, walk.i, walk.currentAbs))
    /\ UNCHANGED <<fs, lstatErr, rIn, cache, proc, extLeft, log, sto, ctxs, bin, extLast, lp, ex>>

NextChain == ChainCall \/ ComponentStep \/ HopStep

SpecChain == InitChain /\ [][NextChain]_vars

(***************************************************************************)
(* File content, checksums and the edit operations                         *)
(***************************************************************************)

\* the NUL byte of a content
NUL == "0"

BinaryDetectionSampleSize == 4096

\* SystemBinaryDetector.IsBinaryContent
IsBinaryContent(content) ==
    LET sampleSize == IF Len(content) < BinaryDetectionSampleSize
                      THEN Len(content) ELSE BinaryDetectionSampleSize
    IN  \E i \in 1..sampleSize : content[i] = NUL

\* the bytes 0xFF and 0xFE of a byte order mark
xFF == "FF"
xFE == "FE"

\* services.SystemBinaryDetector.IsBinaryContent: a content that starts with
\* a UTF-16 or UTF-32 byte order mark is text whatever follows
IsBinaryContentBOM(content) ==
    IF /\ Len(content) >= 2
       /\ \/ content[1] = xFF /\ content[2] = xFE
          \/ content[1] = xFE /\ content[2] = xFF
    THEN FALSE
    ELSE IF /\ Len(content) >= 4
            /\ \/ /\ content[1] = xFF /\ content[2] = xFE
                  /\ content[3] = NUL /\ content[4] = NUL
               \/ /\ content[1] = NUL /\ content[2] = NUL
                  /\ content[3] = xFE /\ content[4] = xFF
    THEN FALSE
    ELSE LET sampleSize == IF Len(content) < BinaryDetectionSampleSize
                           THEN Len(content) ELSE BinaryDetectionSampleSize
         IN  \E i \in 1..sampleSize : content[i] = NUL

\* n bytes "a"
Padding(n) == [i \in 1..n |-> "a"]

\* a checksum that tells contents apart by their length only
computeChecksumByLength(data) == [sha256 |-> Len(data)]

\* computeChecksum: the SHA-256 digest, one value per content
computeChecksum(data) == [sha256 |-> data]

\* strings.Index(s, sub) for a non-empty sub: 0-based, -1 when absent
RECURSIVE IndexFrom(_, _, _)
IndexFrom(s, sub, k) ==
    IF k + Len(sub) > Len(s) THEN -1
    ELSE IF SubSeq(s, k + 1, k + Len(sub)) = sub THEN k
    ELSE IndexFrom(s, sub, k + 1)

Index(s, sub) == IndexFrom(s, sub, 0)

\* strings.Count: non-overlapping occurrences; Len(s) + 1 for an empty sub
RECURSIVE Count(_, _)
Count(s, sub) ==
    IF sub = <<>> THEN Len(s) + 1
    ELSE LET k == Index(s, sub) IN
         IF k = -1 THEN 0
         ELSE 1 + Count(SubSeq(s, k + Len(sub) + 1, Len(s)), sub)

\* the replacement loop of strings.Replace: i replacements done, start is the
\* 0-based position in s after the last one
RECURSIVE ReplaceLoop(_, _, _, _, _, _, _)
ReplaceLoop(s, old, new, n, i, start, acc) ==
    IF i = n THEN acc \o SubSeq(s, start + 1, Len(s))
    ELSE LET j == IF old = <<>>
                  THEN (IF i > 0 THEN start + 1 ELSE start)
                  ELSE start + Index(SubSeq(s, start + 1, Len(s)), old)
         IN  ReplaceLoop(s, old, new, n, i + 1, j + Len(old),
                         acc \o SubSeq(s, start + 1, j) \o new)

\* strings.Replace(s, old, new, n)
Replace(s, old, new, n) ==
    LET m == Count(s, old) IN
    IF old = new \/ n = 0 \/ m = 0 THEN s
    ELSE ReplaceLoop(s, old, new, IF n < 0 \/ m < n THEN m ELSE n, 0, 0, <<>>)

EditOp(before, after, expected) ==
    [before |-> before, after |-> after, expectedReplacements |-> expected]

\* the operation loop run from the last operation of the request to the first
RECURSIVE ApplyOpsReversed(_, _, _)
ApplyOpsReversed(content, ops, k) ==
    IF k > Len(ops) THEN [err |-> "none", content |-> content, applied |-> k - 1]
    ELSE LET op == ops[Len(ops) + 1 - k]
             expected == IF op.expectedReplacements = 0 THEN 1
                         ELSE op.expectedReplacements
             count == Count(content, op.before)
         IN  IF count = 0
             THEN [err |-> "SnippetNotFound", content |-> content, applied |-> k - 1]
             ELSE IF count # expected
                  THEN [err |-> "ReplacementMismatch", content |-> content, applied |-> k - 1]
                  ELSE ApplyOpsReversed(Replace(content, op.before, op.after, expected),
                                        ops, k + 1)

\* the operation loop that takes an omitted expectedReplacements as it is
RECURSIVE ApplyOpsNoDefault(_, _, _)
ApplyOpsNoDefault(content, ops, k) ==
    IF k > Len(ops) THEN [err |-> "none", content |-> content, applied |-> k - 1]
    ELSE LET op == ops[k]
             expected == op.expectedReplacements
             count == Count(content, op.before)
         IN  IF count = 0
             THEN [err |-> "SnippetNotFound", content |-> content, applied |-> k - 1]
             ELSE IF count # expected
                  THEN [err |-> "ReplacementMismatch", content |-> content, applied |-> k - 1]
                  ELSE ApplyOpsNoDefault(Replace(content, op.before, op.after, expected),
                                         ops, k + 1)

\* the operation loop that skips an operation whose snippet is not found
RECURSIVE ApplyOpsSkipMissing(_, _, _)
ApplyOpsSkipMissing(content, ops, k) ==
    IF k > Len(ops) THEN [err |-> "none", content |-> content, applied |-> k - 1]
    ELSE LET op == ops[k]
             expected == IF op.expectedReplacements = 0 THEN 1
                         ELSE op.expectedReplacements
             count == Count(content, op.before)
         IN  IF count = 0
             THEN ApplyOpsSkipMissing(content, ops, k + 1)
             ELSE IF count # expected
                  THEN [err |-> "ReplacementMismatch", content |-> content, applied |-> k - 1]
                  ELSE ApplyOpsSkipMissing(Replace(content, op.before, op.after, expected),
                                           ops, k + 1)

\* The operation loop of EditFileTool.Run from operation k on the evolving
\* content: the error of the first failing operation, or the final content
RECURSIVE ApplyOps(_, _, _)
ApplyOps(content, ops, k) ==
    IF k > Len(ops) THEN [err |-> "none", content |-> content, applied |-> k - 1]
    ELSE LET op == ops[k]
             expected == IF op.expectedReplacements = 0 THEN 1
                         ELSE op.expectedReplacements
             count == Count(content, op.before)
         IN  IF count = 0
             THEN [err |-> "SnippetNotFound", content |-> content, applied |-> k - 1]
             ELSE IF count # expected
                  THEN [err |-> "ReplacementMismatch", content |-> content, applied |-> k - 1]
                  ELSE ApplyOps(Replace(content, op.before, op.after, expected), ops, k + 1)

(***************************************************************************)
(* Filesystem calls that change the tree                                   *)
(***************************************************************************)

\* the entries of f that are not at or below p
Without(f, p) ==
    LET keep == {q \in DOMAIN f : ~(Len(q) >= Len(p) /\ SubSeq(q, 1, Len(p)) = p)}
    IN  [q \in keep |-> f[q]]

Put(f, p, n) == (p :> n) @@ Without(f, p)

Prefix(p, k) == SubSeq(p, 1, k)

\* os.MkdirAll(path): nothing to do when path is a directory (symlinks
\* followed); an error when something that is no directory is in the way;
\* otherwise the missing components are made below the deepest existing one
MkdirAll(path) ==
    LET Below(top, base) ==
            IF Node(base).kind # "dir"
            THEN [err |-> "notdir", made |-> {}]
            ELSE IF top < Len(path) /\ Lstat(Prefix(path, top + 1)).err # "notexist"
                 THEN [err |-> "exists", made |-> {}]
                 ELSE [err |-> "none",
                       made |-> {base \o SubSeq(path, top + 1, j) :
                                 j \in (top + 1)..Len(path)}]
        From(top) == Below(top, RealLoc(Prefix(path, top), TRUE).loc)
        Deepest(have) == From(CHOOSE k \in have : \A j \in have : j <= k)
    IN  Deepest({k \in 0..Len(path) : Stat(Prefix(path, k)).err = "none"})

\* the tree after MkdirAll made the directories of made
WithDirs(f, made) == [q \in made |-> DirNode] @@ f

\* the name os.CreateTemp(dir, ".tmp-*") gives the temp file of call c
TmpName(c) == IF c = 1 THEN "t1" ELSE "t2"

\* permission bits: 0600 of a fresh temp file, 0644 the default of WriteFile
TmpPerm == 600
DefaultPerm == 644

(***************************************************************************)
(* Read, Write and Edit calls                                              *)
(***************************************************************************)

\* the scaled-down maximum file size of the context
MaxFileSize == 3

\* the changes the external actor makes in one behaviour
MaxExt == 1

Procs == {1, 2}

\* a location, as the operating system sees it, is inside the workspace
Inside(loc) == loc # <<>> /\ loc[1] = "w"

WriteReq(parts, content, perm) ==
    [kind |-> "write", path |-> UserPath(FALSE, FALSE, parts), content |-> content,
     perm |-> perm, ops |-> <<>>, offset |-> 0, limit |-> 0]
EditReq(parts, ops) ==
    [kind |-> "edit", path |-> UserPath(FALSE, FALSE, parts), content |-> <<>>,
     perm |-> 0, ops |-> ops, offset |-> 0, limit |-> 0]
ReadReq(parts, offset, limit) ==
    [kind |-> "read", path |-> UserPath(FALSE, FALSE, parts), content |-> <<>>,
     perm |-> 0, ops |-> <<>>, offset |-> offset, limit |-> limit]

\* the calls of the first caller; perm 0 stands for "no perm given"
Requests ==
    { WriteReq(<<"n">>, <<"a", "b">>, 0), WriteReq(<<"f">>, <<"a", "b">>, 0),
      WriteReq(<<"f">>, <<"b">>, 600), WriteReq(<<"d", "n">>, <<"b">>, 600),
      WriteReq(<<"m", "n">>, <<"b">>, 0), WriteReq(<<"lo", "n">>, <<"b">>, 0),
      WriteReq(<<"lf">>, <<"b">>, 0), WriteReq(<<"n">>, <<"a", NUL>>, 0),
      WriteReq(<<"m", "n">>, <<"a", "a", "a", "a", "a">>, 0),
      WriteReq(<<"n">>, Padding(MaxFileSize), 0),
      WriteReq(<<"n">>, Padding(MaxFileSize + 1), 0),
      EditReq(<<"f">>, <<EditOp(<<"a">>, <<"b">>, 0)>>),
      EditReq(<<"d", "f">>, <<EditOp(<<"a">>, <<"b">>, 1)>>),
      EditReq(<<"f">>, <<EditOp(<<"b">>, <<"a">>, 1), EditOp(<<"a">>, <<"b", "b">>, 2)>>),
      EditReq(<<"f">>, <<EditOp(<<"a">>, <<"b">>, 2)>>),
      EditReq(<<"lf">>, <<EditOp(<<"s">>, <<"b">>, 1)>>),
      EditReq(<<"lo", "f">>, <<EditOp(<<"s">>, <<"b">>, 1)>>),
      EditReq(<<"n">>, <<EditOp(<<"a">>, <<"b">>, 1)>>),
      ReadReq(<<"f">>, 0, 0), ReadReq(<<"f">>, 1, 0), ReadReq(<<"d", "f">>, 0, 1),
      ReadReq(<<"lf">>, 0, 0), ReadReq(<<"lo", "f">>, 0, 0), ReadReq(<<"n">>, 0, 0),
      ReadReq(<<"d">>, 0, 0) }

\* the calls of the second, competing caller
Competing ==
    { EditReq(<<"f">>, <<EditOp(<<"b">>, <<"a">>, 1)>>),
      WriteReq(<<"n">>, <<"b">>, 0) }

\* the tree the calls start on: /w/lo and /w/lf point outside the workspace
StartFs ==
    (<<>> :> DirNode) @@ (<<"w">> :> DirNode) @@ (<<"o">> :> DirNode)
    @@ (<<"o", "f">> :> FileNode(<<"s">>, 600))
    @@ (<<"w", "f">> :> FileNode(<<"a", "b">>, 644))
    @@ (<<"w", "d">> :> DirNode)
    @@ (<<"w", "d", "f">> :> FileNode(<<"a", "b">>, 600))
    @@ (<<"w", "lo">> :> LinkNode(AbsT(<<"o">>)))
    @@ (<<"w", "lf">> :> LinkNode(AbsT(<<"o", "f">>)))

\* what the external actor writes into /w/f
ExtContents == { <<"b">>, <<"b", NUL>>, <<"a", "b">> }

Idle ==
    [pc |-> "idle", kind |-> "none", path |-> UserPath(FALSE, FALSE, <<>>),
     content |-> <<>>, perm |-> 0, ops |-> <<>>, offset |-> 0, limit |-> 0,
     abs |-> <<>>, par |-> <<>>, info |-> Absent, c0 |-> <<>>, ok |-> FALSE,
     newc |-> <<>>, wperm |-> 0, tmp |-> <<>>, before |-> Absent,
     result |-> "none", esc |-> {}, reads |-> 0, aw |-> FALSE, mut |-> FALSE,
     escLink |-> FALSE, existed |-> FALSE, cReval |-> <<>>, revalidated |-> FALSE,
     failedAt |-> "none", startLine |-> 0, data |-> <<>>, stale |-> FALSE,
     cacheAt |-> <<>>]

\* the absolute target of the symlink stored at linkPath
LinkTargetAbs(linkPath) ==
    IF Node(linkPath).target.abs
    THEN CleanFrom(<<>>, Node(linkPath).target.parts, TRUE)
    ELSE JoinAbs(Dir(linkPath), Node(linkPath).target.parts)

\* the absolute path abs0 has a component that is a symlink whose stored
\* target lies outside the workspace root, all components before it being
\* directories
EscapingLinkAt(abs0) ==
    \E k \in 1..Len(abs0) :
        /\ \A j \in 0..(k - 1) : Node(Prefix(abs0, j)).kind = "dir"
        /\ Node(Prefix(abs0, k)).kind = "link"
        /\ ~Inside(LinkTargetAbs(Prefix(abs0, k)))

EscapingLink(path) == EscapingLinkAt(JoinAbs(WorkspaceRoot, path.parts))

Finish(r, res) == [r EXCEPT !.pc = "done", !.result = res]

\* an access of kind k at the real location loc, noted when it is outside
Noted(r, k, loc) ==
    IF Inside(loc) THEN r ELSE [r EXCEPT !.esc = @ \cup {[kind |-> k, loc |-> loc]}]

Init ==
    /\ fs = StartFs
    /\ lstatErr \in {"sentinel", "wrapped"}
    /\ rIn = UserPath(FALSE, FALSE, <<>>)
    /\ rOut = NoResult
    /\ walk = NoWalk
    /\ cache \in { <<>>, (<<"w", "f">> :> computeChecksum(<<"a", "b">>)) }
    /\ proc = [p \in Procs |-> Idle]
    /\ extLeft = MaxExt
    /\ log = <<>>
    /\ sto = NoStore
    /\ ctxs = NoContexts
    /\ bin = NoDetection
    /\ extLast = NoExt
    /\ lp = NoLoop
    /\ ex = NoExec

\* a caller issues a call
Start(p) ==
    /\ proc[p].pc = "idle"
    /\ \E req \in (IF p = 1 THEN Requests ELSE Competing) :
        proc' = [proc EXCEPT ![p] =
                    [Idle EXCEPT !.pc = "resolve", !.kind = req.kind, !.path = req.path,
                                 !.content = req.content, !.perm = req.perm,
                                 !.ops = req.ops, !.offset = req.offset,
                                 !.limit = req.limit]]
    /\ UNCHANGED <<fs, lstatErr, rIn, rOut, walk, cache, extLeft, log, sto, ctxs, bin, extLast, lp, ex>>

\* the call resolves its path: Resolve(ctx, path)
ResolveStep(p) ==
    /\ proc[p].pc = "resolve"
    /\ LET Resolved(me, r) ==
               proc' = [proc EXCEPT ![p] =
                   IF r.err # "none" THEN Finish(me, r.err)
                   ELSE [me EXCEPT !.pc = "stat", !.abs = r.abs]]
       IN  Resolved([proc[p] EXCEPT !.escLink = EscapingLink(proc[p].path)],
                    Resolve(proc[p].path))
    /\ UNCHANGED <<fs, lstatErr, rIn, rOut, walk, cache, extLeft, log, sto, ctxs, bin, extLast, lp, ex>>

\* FileSystem.ReadFileRange(path, offset, limit) of OSFileSystem
ReadFileRange(path, offset, limit) ==
    LET Opened(st) ==
            LET content == st.node.content
                fileSize == Len(content)
                remaining == fileSize - offset
                readSize == IF limit = 0 \/ remaining < limit THEN remaining ELSE limit
            IN  IF st.err # "none" \/ st.node.kind # "file"
                THEN [err |-> "IOError", data |-> <<>>]
                ELSE IF fileSize > MaxFileSize THEN [err |-> "TooLarge", data |-> <<>>]
                ELSE IF offset = 0 /\ limit = 0 THEN [err |-> "none", data |-> content]
                ELSE IF offset < 0 THEN [err |-> "InvalidOffset", data |-> <<>>]
                ELSE IF offset >= fileSize THEN [err |-> "none", data |-> <<>>]
                ELSE [err |-> "none",
                      data |-> SubSeq(content, offset + 1, offset + readSize)]
    IN  Opened(Stat(path))

\* the stat step of a WriteFile that rejects an existing file only when the
\* new content equals the old one
StatStepOverwrite(p) ==
    /\ proc[p].pc = "stat"
    /\ LET Statted(me, st) ==
               proc' = [proc EXCEPT ![p] =
                   IF me.kind = "write"
                   THEN IF st.err = "none" /\ st.node.content = me.content
                        THEN Finish([me EXCEPT !.existed = TRUE], "FileExists")
                        ELSE IF st.err = "none"
                        THEN [me EXCEPT !.existed = TRUE, !.pc = "ensure"]
                        ELSE IF st.err # "notexist" THEN Finish(me, "IOError")
                        ELSE [me EXCEPT !.pc = "ensure"]
                   ELSE IF me.kind = "edit"
                   THEN IF st.err = "notexist" THEN Finish(me, "FileMissing")
                        ELSE IF st.err # "none" THEN Finish(me, "IOError")
                        ELSE [me EXCEPT !.pc = "read", !.info = st.node]
                   ELSE IF st.err = "notexist" THEN Finish(me, "NotExist")
                        ELSE IF st.err # "none" THEN Finish(me, "IOError")
                        ELSE IF st.node.kind = "dir" THEN Finish(me, "IsDirectory")
                        ELSE [me EXCEPT !.pc = "read", !.info = st.node]]
       IN  Statted(proc[p], Stat(proc[p].abs))
    /\ UNCHANGED <<fs, lstatErr, rIn, rOut, walk, cache, extLeft, log, sto, ctxs, bin, extLast, lp, ex>>

\* the call stats the resolved path
StatStep(p) ==
    /\ proc[p].pc = "stat"
    /\ LET Statted(me, st) ==
               proc' = [proc EXCEPT ![p] =
                   IF me.kind = "write"
                   THEN IF st.err = "none"
                        THEN Finish([me EXCEPT !.existed = TRUE], "FileExists")
                        ELSE IF st.err # "notexist" THEN Finish(me, "IOError")
                        ELSE [me EXCEPT !.pc = "ensure"]
                   ELSE IF me.kind = "edit"
                   THEN IF st.err = "notexist" THEN Finish(me, "FileMissing")
                        ELSE IF st.err # "none" THEN Finish(me, "IOError")
                        ELSE [me EXCEPT !.pc = "read", !.info = st.node]
                   ELSE IF st.err = "notexist" THEN Finish(me, "NotExist")
                        ELSE IF st.err # "none" THEN Finish(me, "IOError")
                        ELSE IF st.node.kind = "dir" THEN Finish(me, "IsDirectory")
                        ELSE [me EXCEPT !.pc = "read", !.info = st.node]]
       IN  Statted(proc[p], Stat(proc[p].abs))
    /\ UNCHANGED <<fs, lstatErr, rIn, rOut, walk, cache, extLeft, log, sto, ctxs, bin, extLast, lp, ex>>

\* WriteFile -> EnsureParentDirs: Resolve the path again and validate its
\* parent with resolveSymlink
EnsureStep(p) ==
    /\ proc[p].pc = "ensure"
    /\ LET Validated(me, r, parent, v) ==
               proc' = [proc EXCEPT ![p] =
                   IF r.err # "none" THEN Finish(me, r.err)
                   ELSE IF parent = r.abs THEN [me EXCEPT !.pc = "check"]
                   ELSE IF v.kind = "err" THEN Finish(me, v.err)
                   ELSE [me EXCEPT !.pc = "mkdir", !.par = parent]]
           Resolved(me, r) == Validated(me, r, Dir(r.abs), resolveSymlink(Dir(r.abs)))
       IN  Resolved(proc[p], Resolve(proc[p].path))
    /\ UNCHANGED <<fs, lstatErr, rIn, rOut, walk, cache, extLeft, log, sto, ctxs, bin, extLast, lp, ex>>

\* the checks with content of the maximum size rejected as well
CheckedAtLimit(me) ==
    IF IsBinaryContent(me.content) THEN Finish(me, "BinaryFile")
    ELSE IF Len(me.content) >= MaxFileSize THEN Finish(me, "TooLarge")
    ELSE [me EXCEPT !.pc = "aw_create", !.newc = me.content,
                    !.wperm = IF me.perm = 0 THEN DefaultPerm ELSE me.perm]

\* WriteFile: the binary and size checks that follow EnsureParentDirs
Checked(me) ==
    IF IsBinaryContent(me.content) THEN Finish(me, "BinaryFile")
    ELSE IF Len(me.content) > MaxFileSize THEN Finish(me, "TooLarge")
    ELSE [me EXCEPT !.pc = "aw_create", !.newc = me.content,
                    !.wperm = IF me.perm = 0 THEN DefaultPerm ELSE me.perm]

\* EnsureParentDirs -> FS.EnsureDirs(parent), then the content checks
MkdirStep(p) ==
    /\ proc[p].pc \in {"mkdir", "check"}
    /\ LET Made(me, m) ==
               /\ fs' = WithDirs(fs, m.made)
               /\ proc' = [proc EXCEPT ![p] =
                      IF m.err # "none" THEN Finish(me, "IOError")
                      ELSE Checked([me EXCEPT
                               !.esc = @ \cup {[kind |-> "mkdir", loc |-> q] :
                                               q \in {x \in m.made : ~Inside(x)}},
                               !.mut = @ \/ m.made # {}])]
       IN  Made(proc[p], IF proc[p].pc = "mkdir" THEN MkdirAll(proc[p].par)
                         ELSE [err |-> "none", made |-> {}])
    /\ UNCHANGED <<lstatErr, rIn, rOut, walk, cache, extLeft, log, sto, ctxs, bin, extLast, lp, ex>>

\* EditFileTool.Run / ReadFileTool.Run: the read of the file
ReadStep(p) ==
    /\ proc[p].pc = "read"
    /\ LET Got(me, rd, got) ==
               proc' = [proc EXCEPT ![p] =
                   IF rd.err # "none" THEN Finish([me EXCEPT !.reads = @ + 1], rd.err)
                   ELSE IF IsBinaryContent(rd.data) THEN Finish(got, "BinaryFile")
                   ELSE IF me.kind = "edit" THEN [got EXCEPT !.pc = "get", !.c0 = rd.data]
                   ELSE IF me.offset > 0 THEN [got EXCEPT !.pc = "prefix"]
                   ELSE [got EXCEPT !.pc = "cache", !.startLine = 1]]
           Read(me, rd) ==
               Got(me, rd,
                   Noted([me EXCEPT !.reads = @ + 1, !.data = rd.data,
                                    !.cacheAt = cache,
                                    !.stale = /\ rd.err = "none"
                                              /\ me.abs \in DOMAIN cache
                                              /\ cache[me.abs] # computeChecksum(rd.data)],
                         "read", RealLoc(me.abs, TRUE).loc))
       IN  Read(proc[p], ReadFileRange(proc[p].abs, proc[p].offset, proc[p].limit))
    /\ UNCHANGED <<fs, lstatErr, rIn, rOut, walk, cache, extLeft, log, sto, ctxs, bin, extLast, lp, ex>>

\* the prefix read of a Read that numbers its first line 1 whatever the offset
PrefixStepFromOne(p) ==
    /\ proc[p].pc = "prefix"
    /\ LET Got(me, rd, got) ==
               proc' = [proc EXCEPT ![p] =
                   IF rd.err # "none" THEN Finish([me EXCEPT !.reads = @ + 1], rd.err)
                   ELSE [got EXCEPT !.pc = "cache",
                                    !.startLine = 1]]
       IN  Got(proc[p], ReadFileRange(proc[p].abs, 0, proc[p].offset),
               Noted([proc[p] EXCEPT !.reads = @ + 1], "read",
                     RealLoc(proc[p].abs, TRUE).loc))
    /\ UNCHANGED <<fs, lstatErr, rIn, rOut, walk, cache, extLeft, log, sto, ctxs, bin, extLast, lp, ex>>

\* ReadFileTool.Run with offset > 0: the read of the prefix that gives the
\* starting line number
PrefixStep(p) ==
    /\ proc[p].pc = "prefix"
    /\ LET Got(me, rd, got) ==
               proc' = [proc EXCEPT ![p] =
                   IF rd.err # "none" THEN Finish([me EXCEPT !.reads = @ + 1], rd.err)
                   ELSE [got EXCEPT !.pc = "cache",
                                    !.startLine = Count(rd.data, <<"\n">>) + 1]]
       IN  Got(proc[p], ReadFileRange(proc[p].abs, 0, proc[p].offset),
               Noted([proc[p] EXCEPT !.reads = @ + 1], "read",
                     RealLoc(proc[p].abs, TRUE).loc))
    /\ UNCHANGED <<fs, lstatErr, rIn, rOut, walk, cache, extLeft, log, sto, ctxs, bin, extLast, lp, ex>>

\* the conflict check and operation loop of an Edit that will write with the
\* default permission
GetStepDefaultPerm(p) ==
    /\ proc[p].pc = "get"
    /\ LET Applied(me, currentChecksum, ok, ap, seen) ==
               proc' = [proc EXCEPT ![p] =
                   IF ok /\ cache[me.abs] # currentChecksum
                   THEN Finish(seen, "EditConflict")
                   ELSE IF ap.err # "none" THEN Finish(seen, ap.err)
                   ELSE IF Len(ap.content) > MaxFileSize THEN Finish(seen, "TooLarge")
                   ELSE [seen EXCEPT !.pc = IF ok THEN "reval" ELSE "aw_create",
                                     !.newc = ap.content]]
           Looked(me, ok) ==
               Applied(me, computeChecksum(me.c0), ok, ApplyOps(me.c0, me.ops, 1),
                       [me EXCEPT !.ok = ok, !.wperm = DefaultPerm])
       IN  Looked(proc[p], proc[p].abs \in DOMAIN cache)
    /\ UNCHANGED <<fs, lstatErr, rIn, rOut, walk, cache, extLeft, log, sto, ctxs, bin, extLast, lp, ex>>

\* the step of EditFileTool.Run without the conflict check against the
\* cached checksum
GetStepNoConflict(p) ==
    /\ proc[p].pc = "get"
    /\ LET Applied(me, ok, ap, seen) ==
               proc' = [proc EXCEPT ![p] =
                   IF ap.err # "none" THEN Finish(seen, ap.err)
                   ELSE IF Len(ap.content) > MaxFileSize THEN Finish(seen, "TooLarge")
                   ELSE [seen EXCEPT !.pc = IF ok THEN "reval" ELSE "aw_create",
                                     !.newc = ap.content]]
           Looked(me, ok) ==
               Applied(me, ok, ApplyOps(me.c0, me.ops, 1),
                       [me EXCEPT !.ok = ok, !.wperm = me.info.perm])
       IN  Looked(proc[p], proc[p].abs \in DOMAIN cache)
    /\ UNCHANGED <<fs, lstatErr, rIn, rOut, walk, cache, extLeft, log, sto, ctxs, bin, extLast, lp, ex>>

\* EditFileTool.Run: the conflict check against the cached checksum, the
\* operations and the size limit
GetStep(p) ==
    /\ proc[p].pc = "get"
    /\ LET Applied(me, currentChecksum, ok, ap, seen) ==
               proc' = [proc EXCEPT ![p] =
                   IF ok /\ cache[me.abs] # currentChecksum
                   THEN Finish(seen, "EditConflict")
                   ELSE IF ap.err # "none" THEN Finish(seen, ap.err)
                   ELSE IF Len(ap.content) > MaxFileSize THEN Finish(seen, "TooLarge")
                   ELSE [seen EXCEPT !.pc = IF ok THEN "reval" ELSE "aw_create",
                                     !.newc = ap.content]]
           Looked(me, ok) ==
               Applied(me, computeChecksum(me.c0), ok, ApplyOps(me.c0, me.ops, 1),
                       [me EXCEPT !.ok = ok, !.wperm = me.info.perm])
       IN  Looked(proc[p], proc[p].abs \in DOMAIN cache)
    /\ UNCHANGED <<fs, lstatErr, rIn, rOut, walk, cache, extLeft, log, sto, ctxs, bin, extLast, lp, ex>>

\* the revalidation read whose result is not compared with the first read
RevalStepNoCompare(p) ==
    /\ proc[p].pc = "reval"
    /\ LET Compared(me, rd, got) ==
               proc' = [proc EXCEPT ![p] =
                   IF rd.err # "none" THEN Finish([me EXCEPT !.reads = @ + 1], rd.err)
                   ELSE [got EXCEPT !.pc = "aw_create"]]
           Reread(me, rd) ==
               Compared(me, rd, Noted([me EXCEPT !.reads = @ + 1, !.cReval = rd.data,
                                                 !.revalidated = TRUE],
                                      "read", RealLoc(me.abs, TRUE).loc))
       IN  Reread(proc[p], ReadFileRange(proc[p].abs, 0, 0))
    /\ UNCHANGED <<fs, lstatErr, rIn, rOut, walk, cache, extLeft, log, sto, ctxs, bin, extLast, lp, ex>>

\* EditFileTool.Run: the revalidation read before the write
RevalStep(p) ==
    /\ proc[p].pc = "reval"
    /\ LET Compared(me, rd, got) ==
               proc' = [proc EXCEPT ![p] =
                   IF rd.err # "none" THEN Finish([me EXCEPT !.reads = @ + 1], rd.err)
                   ELSE IF computeChecksum(rd.data) # computeChecksum(me.c0)
                        THEN Finish(got, "EditConflict")
                        ELSE [got EXCEPT !.pc = "aw_create"]]
           Reread(me, rd) ==
               Compared(me, rd, Noted([me EXCEPT !.reads = @ + 1, !.cReval = rd.data,
                                                 !.revalidated = TRUE],
                                      "read", RealLoc(me.abs, TRUE).loc))
       IN  Reread(proc[p], ReadFileRange(proc[p].abs, 0, 0))
    /\ UNCHANGED <<fs, lstatErr, rIn, rOut, walk, cache, extLeft, log, sto, ctxs, bin, extLast, lp, ex>>

(***************************************************************************)
(* writeFileAtomic(path, content, perm), one step per system call; every   *)
(* system call may fail                                                    *)
(***************************************************************************)

\* the path of the temp file of call p, as writeFileAtomic names it
TmpPath(p) == Append(Dir(proc[p].abs), TmpName(p))

\* os.Remove(tmpPath)
Removed(p) ==
    LET At(k) ==
            IF k.err = "none" /\ Node(k.loc).kind \in {"file", "link"}
            THEN Without(fs, k.loc)
            ELSE fs
    IN  At(RealLoc(TmpPath(p), FALSE))

Failed(r, step) == [Finish(r, "IOError") EXCEPT !.failedAt = step]

\* an atomic write that opens and truncates the target itself instead of a
\* temp file next to it
AwCreateInPlace(p) ==
    /\ proc[p].pc = "aw_create"
    /\ \E fail \in BOOLEAN :
        LET Created(me, d, at) ==
                IF fail \/ d.err # "none" \/ d.node.kind # "dir" \/ at.err # "none"
                THEN /\ fs' = fs
                     /\ proc' = [proc EXCEPT ![p] = Failed(me, "create")]
                ELSE /\ fs' = Put(fs, at.loc, FileNode(<<>>, TmpPerm))
                     /\ proc' = [proc EXCEPT ![p] =
                            Noted([me EXCEPT !.pc = "aw_write", !.tmp = at.loc,
                                             !.mut = TRUE],
                                  "write", at.loc)]
        IN  Created([proc[p] EXCEPT !.aw = TRUE, !.before = Lstat(proc[p].abs).node],
                    Stat(Dir(proc[p].abs)), RealLoc(proc[p].abs, TRUE))
    /\ UNCHANGED <<lstatErr, rIn, rOut, walk, cache, extLeft, log, sto, ctxs, bin, extLast, lp, ex>>

\* os.CreateTemp(dir, ".tmp-*")
AwCreate(p) ==
    /\ proc[p].pc = "aw_create"
    /\ \E fail \in BOOLEAN :
        LET Created(me, d, tmpReal) ==
                IF fail \/ d.err # "none" \/ d.node.kind # "dir"
                THEN /\ fs' = fs
                     /\ proc' = [proc EXCEPT ![p] = Failed(me, "create")]
                ELSE /\ fs' = Put(fs, tmpReal, FileNode(<<>>, TmpPerm))
                     /\ proc' = [proc EXCEPT ![p] =
                            Noted([me EXCEPT !.pc = "aw_write", !.tmp = tmpReal,
                                             !.mut = TRUE],
                                  "write", tmpReal)]
        IN  Created([proc[p] EXCEPT !.aw = TRUE, !.before = Lstat(proc[p].abs).node],
                    Stat(Dir(proc[p].abs)),
                    Append(RealLoc(Dir(proc[p].abs), TRUE).loc, TmpName(p)))
    /\ UNCHANGED <<lstatErr, rIn, rOut, walk, cache, extLeft, log, sto, ctxs, bin, extLast, lp, ex>>

\* tmpFile.Write(content): the bytes reach the temp file one after the other,
\* the call returning with the last one; on an error the deferred Close and
\* Remove run
AwWrite(p) ==
    /\ proc[p].pc = "aw_write"
    /\ \E fail \in BOOLEAN :
        LET me == proc[p]
            open == me.tmp \in DOMAIN fs /\ fs[me.tmp].kind = "file"
        IN  IF fail
            THEN /\ fs' = Removed(p)
                 /\ proc' = [proc EXCEPT ![p] = Failed(me, "write")]
            ELSE IF open /\ Len(fs[me.tmp].content) + 1 < Len(me.newc)
            THEN /\ fs' = [fs EXCEPT ![me.tmp].content =
                                         SubSeq(me.newc, 1, Len(@) + 1)]
                 /\ proc' = proc
            ELSE /\ fs' = IF open THEN [fs EXCEPT ![me.tmp].content = me.newc] ELSE fs
                 /\ proc' = [proc EXCEPT ![p].pc = "aw_sync"]
    /\ UNCHANGED <<lstatErr, rIn, rOut, walk, cache, extLeft, log, sto, ctxs, bin, extLast, lp, ex>>

\* tmpFile.Sync()
AwSync(p) ==
    /\ proc[p].pc = "aw_sync"
    /\ \E fail \in BOOLEAN :
        IF fail
        THEN /\ fs' = Removed(p)
             /\ proc' = [proc EXCEPT ![p] = Failed(proc[p], "sync")]
        ELSE /\ fs' = fs
             /\ proc' = [proc EXCEPT ![p].pc = "aw_close"]
    /\ UNCHANGED <<lstatErr, rIn, rOut, walk, cache, extLeft, log, sto, ctxs, bin, extLast, lp, ex>>

\* tmpFile.Close()
AwClose(p) ==
    /\ proc[p].pc = "aw_close"
    /\ \E fail \in BOOLEAN :
        IF fail
        THEN /\ fs' = Removed(p)
             /\ proc' = [proc EXCEPT ![p] = Failed(proc[p], "close")]
        ELSE /\ fs' = fs
             /\ proc' = [proc EXCEPT ![p].pc = "aw_rename"]
    /\ UNCHANGED <<lstatErr, rIn, rOut, walk, cache, extLeft, log, sto, ctxs, bin, extLast, lp, ex>>

\* a rename that first reads the target again and gives up with EditConflict
\* when an Edit finds it changed since its first read
AwRenameIfUnchanged(p) ==
    /\ proc[p].pc = "aw_rename"
    /\ \E fail \in BOOLEAN :
        LET Renamed(me, src, dst, now) ==
                IF me.kind = "edit" /\ now.err = "none" /\ now.data # me.c0
                THEN /\ fs' = Removed(p)
                     /\ proc' = [proc EXCEPT ![p] = Finish(me, "EditConflict")]
                ELSE IF ~(/\ ~fail
                          /\ src.err = "none" /\ Node(src.loc).kind = "file"
                          /\ dst.err = "none" /\ Node(dst.loc).kind # "dir")
                THEN /\ fs' = Removed(p)
                     /\ proc' = [proc EXCEPT ![p] = Failed(me, "rename")]
                ELSE /\ fs' = Put(Without(fs, src.loc), dst.loc, Node(src.loc))
                     /\ proc' = [proc EXCEPT ![p] =
                            Noted([me EXCEPT !.pc = "aw_chmod"], "write", dst.loc)]
        IN  Renamed(proc[p], RealLoc(TmpPath(p), FALSE), RealLoc(proc[p].abs, FALSE),
                    ReadFileRange(proc[p].abs, 0, 0))
    /\ UNCHANGED <<lstatErr, rIn, rOut, walk, cache, extLeft, log, sto, ctxs, bin, extLast, lp, ex>>

\* os.Rename(tmpPath, path); on an error os.Remove(tmpPath)
AwRename(p) ==
    /\ proc[p].pc = "aw_rename"
    /\ \E fail \in BOOLEAN :
        LET Renamed(me, src, dst) ==
                IF ~(/\ ~fail
                     /\ src.err = "none" /\ Node(src.loc).kind = "file"
                     /\ dst.err = "none" /\ Node(dst.loc).kind # "dir")
                THEN /\ fs' = Removed(p)
                     /\ proc' = [proc EXCEPT ![p] = Failed(me, "rename")]
                ELSE /\ fs' = Put(Without(fs, src.loc), dst.loc, Node(src.loc))
                     /\ proc' = [proc EXCEPT ![p] =
                            Noted([me EXCEPT !.pc = "aw_chmod"], "write", dst.loc)]
        IN  Renamed(proc[p], RealLoc(TmpPath(p), FALSE), RealLoc(proc[p].abs, FALSE))
    /\ UNCHANGED <<lstatErr, rIn, rOut, walk, cache, extLeft, log, sto, ctxs, bin, extLast, lp, ex>>

\* os.Chmod(path, perm), after the rename
AwChmod(p) ==
    /\ proc[p].pc = "aw_chmod"
    /\ \E fail \in BOOLEAN :
        LET Changed(me, at) ==
                IF fail \/ at.err # "none" \/ Node(at.loc).kind = "absent"
                THEN /\ fs' = fs
                     /\ proc' = [proc EXCEPT ![p] = Failed(me, "chmod")]
                ELSE /\ fs' = [fs EXCEPT ![at.loc].perm = me.wperm]
                     /\ proc' = [proc EXCEPT ![p] =
                            Noted([me EXCEPT !.pc = "cache"], "write", at.loc)]
        IN  Changed(proc[p], RealLoc(proc[p].abs, TRUE))
    /\ UNCHANGED <<lstatErr, rIn, rOut, walk, cache, extLeft, log, sto, ctxs, bin, extLast, lp, ex>>

\* the checksum update that stores the checksum of whatever a Read returned
CacheStepAnyRead(p) ==
    /\ proc[p].pc = "cache"
    /\ LET me == proc[p]
       IN  /\ cache' = (me.abs :> computeChecksum(IF me.kind = "read" THEN me.data
                                                  ELSE me.newc)) @@ cache
           /\ proc' = [proc EXCEPT ![p] =
                   Finish([me EXCEPT !.mut = @ \/ me.kind = "read"], "ok")]
    /\ UNCHANGED <<fs, lstatErr, rIn, rOut, walk, extLeft, log, sto, ctxs, bin, extLast, lp, ex>>

\* the last step of a call: the checksum cache is updated (by Read only
\* when the read covered the whole file) and the call returns
CacheStep(p) ==
    /\ proc[p].pc = "cache"
    /\ LET me == proc[p]
           isFullRead == me.offset = 0 /\ Len(me.data) = Len(me.info.content)
       IN  IF me.kind = "read"
           THEN /\ cache' = IF isFullRead
                            THEN (me.abs :> computeChecksum(me.data)) @@ cache
                            ELSE cache
                /\ proc' = [proc EXCEPT ![p] =
                        Finish([me EXCEPT !.mut = @ \/ isFullRead], "ok")]
           ELSE /\ cache' = (me.abs :> computeChecksum(me.newc)) @@ cache
                /\ proc' = [proc EXCEPT ![p] = Finish(me, "ok")]
    /\ UNCHANGED <<fs, lstatErr, rIn, rOut, walk, extLeft, log, sto, ctxs, bin, extLast, lp, ex>>

(***************************************************************************)
(* Other actors on the same filesystem                                     *)
(***************************************************************************)

\* another program rewrites /w/f
ExtModify ==
    /\ extLeft > 0
    /\ Node(<<"w", "f">>).kind = "file"
    /\ \E c \in ExtContents :
        /\ fs[<<"w", "f">>].content # c
        /\ fs' = [fs EXCEPT ![<<"w", "f">>].content = c]
        /\ extLast' = [during |-> proc[1].pc, wrote |-> c,
                       over |-> fs[<<"w", "f">>].content]
    /\ extLeft' = extLeft - 1
    /\ UNCHANGED <<lstatErr, rIn, rOut, walk, cache, proc, log, sto, ctxs, bin, lp, ex>>

\* another program replaces the directory /w/d by a symlink to /o
ExtSwap ==
    /\ extLeft > 0
    /\ Node(<<"w", "d">>).kind = "dir"
    /\ fs' = Put(fs, <<"w", "d">>, LinkNode(AbsT(<<"o">>)))
    /\ extLeft' = extLeft - 1
    /\ UNCHANGED <<lstatErr, rIn, rOut, walk, cache, proc, log, sto, ctxs, bin, extLast, lp, ex>>

Step(p) ==
    \/ ResolveStep(p) \/ StatStep(p) \/ EnsureStep(p) \/ MkdirStep(p)
    \/ ReadStep(p) \/ PrefixStep(p) \/ GetStep(p) \/ RevalStep(p)
    \/ AwCreate(p) \/ AwWrite(p) \/ AwSync(p) \/ AwClose(p)
    \/ AwRename(p) \/ AwChmod(p) \/ CacheStep(p)

Next ==
    \/ \E p \in Procs : Start(p)
    \/ \E p \in Procs : Step(p)
    \/ ExtModify
    \/ ExtSwap

\* concurrent callers and the external actor
Spec == Init /\ [][Next]_vars

\* one caller on a filesystem nobody else touches
NextSeq == Start(1) \/ Step(1)

SpecSeq == Init /\ [][NextSeq]_vars

\* one caller and another program that rewrites /w/f
NextRace == Start(1) \/ Step(1) \/ ExtModify

SpecRace == Init /\ [][NextRace]_vars

(***************************************************************************)
(* One caller issuing several calls, one after the other                   *)
(***************************************************************************)

\* the calls the caller issues in one behaviour
MaxCalls == 4

\* the calls of the caller: all on the new file /w/n
CallRequests ==
    { WriteReq(<<"n">>, <<"a", "b">>, 0),
      EditReq(<<"n">>, <<EditOp(<<"a">>, <<"b">>, 0)>>),
      EditReq(<<"n">>, <<EditOp(<<"b">>, <<"a">>, 1)>>),
      ReadReq(<<"n">>, 0, 0), ReadReq(<<"n">>, 1, 0) }

\* the caller issues its next call
StartCall(p) ==
    /\ proc[p].pc = "idle"
    /\ Len(log) < MaxCalls
    /\ \E req \in CallRequests :
        proc' = [proc EXCEPT ![p] =
                    [Idle EXCEPT !.pc = "resolve", !.kind = req.kind, !.path = req.path,
                                 !.content = req.content, !.perm = req.perm,
                                 !.ops = req.ops, !.offset = req.offset,
                                 !.limit = req.limit]]
    /\ UNCHANGED <<fs, lstatErr, rIn, rOut, walk, cache, extLeft, log, sto, ctxs, bin, extLast, lp, ex>>

\* the call returns to the caller: the response, or the error; left and sum
\* note the entry at the path and its cached checksum at that moment
ReturnCall(p) ==
    /\ proc[p].pc = "done"
    /\ log' = Append(log, [kind |-> proc[p].kind, abs |-> proc[p].abs,
                           ops |-> proc[p].ops, offset |-> proc[p].offset,
                           result |-> proc[p].result,
                           content |-> IF proc[p].kind = "read" THEN proc[p].data
                                       ELSE proc[p].newc,
                           left |-> Lstat(proc[p].abs).node,
                           sum |-> IF proc[p].abs \in DOMAIN cache
                                   THEN cache[proc[p].abs] ELSE computeChecksum(<<>>)])
    /\ proc' = [proc EXCEPT ![p] = Idle]
    /\ UNCHANGED <<fs, lstatErr, rIn, rOut, walk, cache, extLeft, sto, ctxs, bin, extLast, lp, ex>>

NextCalls == StartCall(1) \/ Step(1) \/ ReturnCall(1)

SpecCalls == Init /\ [][NextCalls]_vars

(***************************************************************************)
(* One Edit call on /w/f, over file contents and operation lists           *)
(***************************************************************************)

\* the strings of "a" and "b" of length at most n
Strs(n) == UNION { [1..k -> {"a", "b"}] : k \in 0..n }

\* the operations of the requests
EditOps ==
    { EditOp(x[1], x[2], x[3]) :
        x \in { <<"a">>, <<"b">>, <<"a", "b">> } \X { <<"b">>, <<>> } \X (0..2) }

\* requests of one operation and of two
EditRequests ==
    { EditReq(<<"f">>, ops) :
        ops \in { <<o>> : o \in EditOps } \cup (EditOps \X EditOps) }

\* /w/f holds any content up to the size limit; the cache has no entry for
\* it or the checksum of that content
InitOps ==
    /\ \E c \in Strs(MaxFileSize) :
           /\ fs = Put(StartFs, <<"w", "f">>, FileNode(c, DefaultPerm))
           /\ cache \in { <<>>, (<<"w", "f">> :> computeChecksum(c)) }
    /\ lstatErr \in {"sentinel", "wrapped"}
    /\ rIn = UserPath(FALSE, FALSE, <<>>)
    /\ rOut = NoResult
    /\ walk = NoWalk
    /\ proc = [p \in Procs |-> Idle]
    /\ extLeft = 0
    /\ log = <<>>
    /\ sto = NoStore
    /\ ctxs = NoContexts
    /\ bin = NoDetection
    /\ extLast = NoExt
    /\ lp = NoLoop
    /\ ex = NoExec

\* the caller issues an Edit call
StartEdit(p) ==
    /\ proc[p].pc = "idle"
    /\ \E req \in EditRequests :
        proc' = [proc EXCEPT ![p] =
                    [Idle EXCEPT !.pc = "resolve", !.kind = req.kind, !.path = req.path,
                                 !.content = req.content, !.perm = req.perm,
                                 !.ops = req.ops, !.offset = req.offset,
                                 !.limit = req.limit]]
    /\ UNCHANGED <<fs, lstatErr, rIn, rOut, walk, cache, extLeft, log, sto, ctxs, bin, extLast, lp, ex>>

NextOps ==
    \/ StartEdit(1) \/ ResolveStep(1) \/ StatStep(1) \/ ReadStep(1) \/ GetStep(1)
    \/ RevalStep(1) \/ AwCreate(1) \/ AwWrite(1) \/ AwSync(1) \/ AwClose(1)
    \/ AwRename(1) \/ AwChmod(1) \/ CacheStep(1)

SpecOps == InitOps /\ [][NextOps]_vars

(***************************************************************************)
(* One Read call on /w/f, over file contents with line breaks              *)
(***************************************************************************)

LF == "\n"

\* strings.Split(text, "\n")
RECURSIVE SplitLines(_)
SplitLines(text) ==
    IF \A i \in 1..Len(text) : text[i] # LF THEN <<text>>
    ELSE LET k == CHOOSE i \in 1..Len(text) :
                      text[i] = LF /\ \A j \in 1..(i - 1) : text[j] # LF
         IN  <<SubSeq(text, 1, k - 1)>> \o SplitLines(SubSeq(text, k + 1, Len(text)))

\* formatFileContent(text, startLine): the numbered lines between the <file>
\* tags, none for the "(Empty file)" answer
formatFileContent(text, startLine) ==
    IF text = <<>> THEN <<>>
    ELSE LET Numbered(lines) ==
                 [i \in 1..Len(lines) |-> [lineNum |-> startLine + (i - 1),
                                           line |-> lines[i]]]
             Trimmed(lines) ==
                 Numbered(IF Len(lines) > 0 /\ lines[Len(lines)] = <<>>
                          THEN SubSeq(lines, 1, Len(lines) - 1) ELSE lines)
         IN  Trimmed(SplitLines(text))

\* the strings of "a" and line breaks of length at most n
Texts(n) == UNION { [1..k -> {"a", LF}] : k \in 0..n }

\* the largest limit of a request
MaxLimit == 2

ReadRequests ==
    { ReadReq(<<"f">>, offset, limit) : offset \in 0..MaxFileSize, limit \in 0..MaxLimit }

InitRead ==
    /\ \E c \in Texts(MaxFileSize) :
           fs = Put(StartFs, <<"w", "f">>, FileNode(c, DefaultPerm))
    /\ lstatErr \in {"sentinel", "wrapped"}
    /\ rIn = UserPath(FALSE, FALSE, <<>>)
    /\ rOut = NoResult
    /\ walk = NoWalk
    /\ cache = <<>>
    /\ proc = [p \in Procs |-> Idle]
    /\ extLeft = 0
    /\ log = <<>>
    /\ sto = NoStore
    /\ ctxs = NoContexts
    /\ bin = NoDetection
    /\ extLast = NoExt
    /\ lp = NoLoop
    /\ ex = NoExec

\* the caller issues a Read call
StartRead(p) ==
    /\ proc[p].pc = "idle"
    /\ \E req \in ReadRequests :
        proc' = [proc EXCEPT ![p] =
                    [Idle EXCEPT !.pc = "resolve", !.kind = req.kind, !.path = req.path,
                                 !.content = req.content, !.perm = req.perm,
                                 !.ops = req.ops, !.offset = req.offset,
                                 !.limit = req.limit]]
    /\ UNCHANGED <<fs, lstatErr, rIn, rOut, walk, cache, extLeft, log, sto, ctxs, bin, extLast, lp, ex>>

NextRead ==
    \/ StartRead(1) \/ ResolveStep(1) \/ StatStep(1) \/ ReadStep(1)
    \/ PrefixStep(1) \/ CacheStep(1)

SpecRead == InitRead /\ [][NextRead]_vars

(***************************************************************************)
(* The checksum store under concurrent Get, Update and Clear               *)
(***************************************************************************)

\* the store calls one caller makes in a behaviour
MaxStoreCalls == 2

StorePaths == { <<"w", "f">>, <<"w", "n">> }
StoreSums == { computeChecksum(<<"a">>), computeChecksum(<<"b">>) }

\* the entry of a path while an assignment to it is under way
Torn == [sha256 |-> <<"torn">>]

\* f.store[path]: the value and whether the path has an entry
Lookup(m, path) ==
    IF path \in DOMAIN m THEN [ok |-> TRUE, sum |-> m[path]]
    ELSE [ok |-> FALSE, sum |-> [sha256 |-> <<>>]]

StoreCalls ==
    { [kind |-> "get", path |-> q, sum |-> [sha256 |-> <<>>]] : q \in StorePaths }
    \cup { [kind |-> "update", path |-> x[1], sum |-> x[2]] : x \in StorePaths \X StoreSums }
    \cup { [kind |-> "clear", path |-> <<>>, sum |-> [sha256 |-> <<>>]] }

InitStore ==
    /\ fs = StartFs
    /\ lstatErr = "wrapped"
    /\ rIn = UserPath(FALSE, FALSE, <<>>)
    /\ rOut = NoResult
    /\ walk = NoWalk
    /\ cache = <<>>
    /\ proc = [p \in Procs |-> Idle]
    /\ extLeft = 0
    /\ log = <<>>
    /\ sto = NoStore
    /\ ctxs = NoContexts
    /\ bin = NoDetection
    /\ extLast = NoExt
    /\ lp = NoLoop
    /\ ex = NoExec

\* a caller calls Get, Update or Clear
StoreCall(p) ==
    /\ sto.call[p].pc = "idle"
    /\ sto.call[p].n < MaxStoreCalls
    /\ \E c \in StoreCalls :
        sto' = [sto EXCEPT !.call[p] =
                   [NoStoreCall EXCEPT !.pc = "lock", !.kind = c.kind, !.path = c.path,
                                       !.sum = c.sum, !.n = sto.call[p].n + 1]]
    /\ UNCHANGED <<fs, lstatErr, rIn, rOut, walk, cache, proc, extLeft, log, ctxs, bin, extLast, lp, ex>>

\* Get without f.mu.RLock()
StoreLockNoRLock(p) ==
    /\ sto.call[p].pc = "lock"
    /\ IF sto.call[p].kind = "get"
       THEN sto' = [sto EXCEPT !.r = @ \cup {p}, !.call[p].pc = "read"]
       ELSE /\ sto.w = 0 /\ sto.r = {}
            /\ sto' = [sto EXCEPT !.w = p, !.call[p].pc = "write"]
    /\ UNCHANGED <<fs, lstatErr, rIn, rOut, walk, cache, proc, extLeft, log, ctxs, bin, extLast, lp, ex>>

\* f.mu.RLock() of Get, f.mu.Lock() of Update and Clear: a reader waits for
\* the writer, a writer for the writer and every reader
StoreLock(p) ==
    /\ sto.call[p].pc = "lock"
    /\ IF sto.call[p].kind = "get"
       THEN /\ sto.w = 0
            /\ sto' = [sto EXCEPT !.r = @ \cup {p}, !.call[p].pc = "read"]
       ELSE /\ sto.w = 0 /\ sto.r = {}
            /\ sto' = [sto EXCEPT !.w = p, !.call[p].pc = "write"]
    /\ UNCHANGED <<fs, lstatErr, rIn, rOut, walk, cache, proc, extLeft, log, ctxs, bin, extLast, lp, ex>>

\* meta, ok := f.store[path] of Get; expect notes what the calls that have
\* released the lock so far left for the path
StoreRead(p) ==
    /\ sto.call[p].pc = "read"
    /\ sto' = [sto EXCEPT !.call[p].pc = "unlock",
                          !.call[p].ret = Lookup(cache, sto.call[p].path),
                          !.call[p].expect = Lookup(sto.lin, sto.call[p].path)]
    /\ UNCHANGED <<fs, lstatErr, rIn, rOut, walk, cache, proc, extLeft, log, ctxs, bin, extLast, lp, ex>>

\* Update that replaces the whole map by the one entry
StoreWriteForgets(p) ==
    /\ sto.call[p].pc \in {"write", "assign"}
    /\ IF sto.call[p].kind = "clear"
       THEN /\ cache' = <<>>
            /\ sto' = [sto EXCEPT !.call[p].pc = "unlock"]
       ELSE IF sto.call[p].pc = "write"
       THEN /\ cache' = (sto.call[p].path :> Torn)
            /\ sto' = [sto EXCEPT !.call[p].pc = "assign"]
       ELSE /\ cache' = (sto.call[p].path :> sto.call[p].sum)
            /\ sto' = [sto EXCEPT !.call[p].pc = "unlock"]
    /\ UNCHANGED <<fs, lstatErr, rIn, rOut, walk, proc, extLeft, log, ctxs, bin, extLast, lp, ex>>

\* f.store[path] = FileMetadata{...} of Update, an assignment that is not
\* atomic, and f.store = make(...) of Clear
StoreWrite(p) ==
    /\ sto.call[p].pc \in {"write", "assign"}
    /\ IF sto.call[p].kind = "clear"
       THEN /\ cache' = <<>>
            /\ sto' = [sto EXCEPT !.call[p].pc = "unlock"]
       ELSE IF sto.call[p].pc = "write"
       THEN /\ cache' = (sto.call[p].path :> Torn) @@ cache
            /\ sto' = [sto EXCEPT !.call[p].pc = "assign"]
       ELSE /\ cache' = (sto.call[p].path :> sto.call[p].sum) @@ cache
            /\ sto' = [sto EXCEPT !.call[p].pc = "unlock"]
    /\ UNCHANGED <<fs, lstatErr, rIn, rOut, walk, proc, extLeft, log, ctxs, bin, extLast, lp, ex>>

\* the deferred RUnlock / Unlock and the return of the call; lin is the
\* store as the calls that have released the write lock, in that order,
\* define it
StoreUnlock(p) ==
    /\ sto.call[p].pc = "unlock"
    /\ sto' = [sto EXCEPT !.call[p].pc = "idle",
                          !.r = @ \ {p},
                          !.w = IF @ = p THEN 0 ELSE @,
                          !.lin = IF sto.call[p].kind = "clear" THEN <<>>
                                  ELSE IF sto.call[p].kind = "update"
                                  THEN (sto.call[p].path :> sto.call[p].sum) @@ @
                                  ELSE @]
    /\ UNCHANGED <<fs, lstatErr, rIn, rOut, walk, cache, proc, extLeft, log, ctxs, bin, extLast, lp, ex>>

NextStore ==
    \E p \in Procs :
        StoreCall(p) \/ StoreLock(p) \/ StoreRead(p) \/ StoreWrite(p) \/ StoreUnlock(p)

SpecStore == InitStore /\ [][NextStore]_vars

(***************************************************************************)
(* Workspace contexts and the checksum caches they own                     *)
(***************************************************************************)

\* the contexts made in a behaviour
MaxContexts == 2

CtxRoots == { <<"w">>, <<"w2">> }
CtxFiles == { <<"f">>, <<"n">> }

\* NewChecksumCache(): a new instance with an empty map
NewChecksumCache(heap) == Append(heap, <<>>)

\* a constructor that hands out the one instance made first
NewWorkspaceContextShared ==
    /\ Len(ctxs.made) < MaxContexts
    /\ \E root \in CtxRoots :
        ctxs' = [ctxs EXCEPT
                    !.heap = IF @ = <<>> THEN NewChecksumCache(@) ELSE @,
                    !.made = Append(@, [WorkspaceRoot |-> root, ChecksumCache |-> 1]),
                    !.used = Append(@, {})]
    /\ UNCHANGED <<fs, lstatErr, rIn, rOut, walk, cache, proc, extLeft, log, sto, bin, extLast, lp, ex>>

\* NewWorkspaceContextWithOptions(workspaceRoot, maxFileSize)
NewWorkspaceContext ==
    /\ Len(ctxs.made) < MaxContexts
    /\ \E root \in CtxRoots :
        ctxs' = [ctxs EXCEPT
                    !.heap = NewChecksumCache(@),
                    !.made = Append(@, [WorkspaceRoot |-> root,
                                        ChecksumCache |-> Len(ctxs.heap) + 1]),
                    !.used = Append(@, {})]
    /\ UNCHANGED <<fs, lstatErr, rIn, rOut, walk, cache, proc, extLeft, log, sto, bin, extLast, lp, ex>>

\* A successful Write, Edit or full Read through context c, as far as the
\* checksum cache goes: ctx.ChecksumCache.Update(abs, checksum)
CtxCall(c) ==
    /\ c \in 1..Len(ctxs.made)
    /\ \E parts \in CtxFiles, content \in { <<"a">>, <<"b">> } :
        LET Update(abs) ==
                ctxs' = [ctxs EXCEPT
                            !.heap[ctxs.made[c].ChecksumCache] =
                                (abs :> computeChecksum(content)) @@ @,
                            !.used[c] = @ \cup {abs}]
        IN  Update(JoinAbs(ctxs.made[c].WorkspaceRoot, parts))
    /\ UNCHANGED <<fs, lstatErr, rIn, rOut, walk, cache, proc, extLeft, log, sto, bin, extLast, lp, ex>>

NextCtx == NewWorkspaceContext \/ \E c \in 1..MaxContexts : CtxCall(c)

SpecCtx == InitStore /\ [][NextCtx]_vars

(***************************************************************************)
(* Binary detection on its own                                             *)
(***************************************************************************)

\* the longest content enumerated byte by byte
MaxBytes == 4

Bytes == {"a", NUL, xFF, xFE}

\* every content of up to MaxBytes bytes, and those contents with a NUL byte
\* appended after enough padding to put it at each index around the sample size
BinaryInputs ==
    LET short == UNION {[1..n -> Bytes] : n \in 0..MaxBytes}
        head  == UNION {[1..n -> Bytes \ {NUL}] : n \in 0..2}
    IN  short \cup
        { h \o Padding(k - Len(h)) \o <<NUL>> :
            h \in head,
            k \in (BinaryDetectionSampleSize - 1)..(BinaryDetectionSampleSize + 1) }

Detect ==
    /\ \E content \in BinaryInputs :
        bin' = [content  |-> content,
                tools    |-> IsBinaryContent(content),
                services |-> IsBinaryContentBOM(content),
                asked    |-> TRUE]
    /\ UNCHANGED <<fs, lstatErr, rIn, rOut, walk, cache, proc, extLeft, log, sto, ctxs, extLast, lp, ex>>

NextBinary == Detect

SpecBinary == InitStore /\ [][NextBinary]_vars

(***************************************************************************)
(* The agent loop: Loop.Run(ctx, userInput)                                *)
(***************************************************************************)

\* the largest maxIterations of a Loop and the most tool calls of a response
MaxIter == 2
MaxToolCalls == 2

\* the messages and events of a run, by what they are
CancelledMsg == "[Session cancelled by user]"
MaxReachedMsg == "[Max iterations reached]"

\* the deferred function runs, then Run returns ret
LoopReturn(l, ret) == [l EXCEPT !.pc = "defer", !.ret = ret]

\* l.events <- ev, when an events channel is set
Emit(l, ev) == IF l.hasEvents THEN [l EXCEPT !.events = Append(@, ev)] ELSE l

\* session.Add(msg)
Add(l, msg) == [l EXCEPT !.session = Append(@, msg)]

\* NewLoop(provider, tools, session, events, maxIterations) and the start of
\* Run: session.Add of the user input
LoopRun ==
    /\ lp.pc = "none"
    /\ \E max \in 0..MaxIter, ev \in BOOLEAN :
        lp' = Add([lp EXCEPT !.pc = "for", !.maxIterations = max, !.hasEvents = ev],
                  "user")
    /\ UNCHANGED <<fs, lstatErr, rIn, rOut, walk, cache, proc, extLeft, log, sto, ctxs, bin, extLast, ex>>

\* the caller cancels the context, at any moment
LoopCancel ==
    /\ ~lp.cancelled
    /\ lp' = [lp EXCEPT !.cancelled = TRUE]
    /\ UNCHANGED <<fs, lstatErr, rIn, rOut, walk, cache, proc, extLeft, log, sto, ctxs, bin, extLast, ex>>

\* the head of an iteration with the bound tested against i - 1
LoopHeadOneMore ==
    /\ lp.pc = "for"
    /\ lp' = IF ~(lp.i - 1 < lp.maxIterations)
              THEN LoopReturn(Add(lp, MaxReachedMsg), "max iterations reached")
              ELSE IF lp.cancelled
              THEN LoopReturn(Add(lp, CancelledMsg), "context canceled")
              ELSE [Emit(lp, "Thinking") EXCEPT !.pc = "generate"]
    /\ UNCHANGED <<fs, lstatErr, rIn, rOut, walk, cache, proc, extLeft, log, sto, ctxs, bin, extLast, ex>>

\* the head of an iteration: i < maxIterations, then ctx.Err(), then the
\* ThinkingEvent; past the last iteration the max-iterations message
LoopHead ==
    /\ lp.pc = "for"
    /\ lp' = IF ~(lp.i < lp.maxIterations)
              THEN LoopReturn(Add(lp, MaxReachedMsg), "max iterations reached")
              ELSE IF lp.cancelled
              THEN LoopReturn(Add(lp, CancelledMsg), "context canceled")
              ELSE [Emit(lp, "Thinking") EXCEPT !.pc = "generate"]
    /\ UNCHANGED <<fs, lstatErr, rIn, rOut, walk, cache, proc, extLeft, log, sto, ctxs, bin, extLast, ex>>

\* provider.Generate whose error path returns past the deferred function
LoopGenerateNoDefer ==
    /\ lp.pc = "generate"
    /\ \E err \in BOOLEAN, text \in BOOLEAN, n \in 0..MaxToolCalls :
        LET called == [lp EXCEPT !.calls = @ + 1]
            added  == Add(called, "assistant")
            told   == IF text THEN Emit(added, "Text") ELSE added
        IN  lp' = IF err THEN [LoopReturn(called, "provider.Generate")
                                  EXCEPT !.pc = "returned"]
                  ELSE IF n = 0 THEN LoopReturn(told, "nil")
                  ELSE [told EXCEPT !.pc = "execute", !.toolCalls = n]
    /\ UNCHANGED <<fs, lstatErr, rIn, rOut, walk, cache, proc, extLeft, log, sto, ctxs, bin, extLast, ex>>

\* provider.Generate and what follows it up to the tool calls: an error, or
\* a response with or without text and with 0..MaxToolCalls tool calls
LoopGenerate ==
    /\ lp.pc = "generate"
    /\ \E err \in BOOLEAN, text \in BOOLEAN, n \in 0..MaxToolCalls :
        LET called == [lp EXCEPT !.calls = @ + 1]
            added  == Add(called, "assistant")
            told   == IF text THEN Emit(added, "Text") ELSE added
        IN  lp' = IF err THEN LoopReturn(called, "provider.Generate")
                  ELSE IF n = 0 THEN LoopReturn(told, "nil")
                  ELSE [told EXCEPT !.pc = "execute", !.toolCalls = n]
    /\ UNCHANGED <<fs, lstatErr, rIn, rOut, walk, cache, proc, extLeft, log, sto, ctxs, bin, extLast, ex>>

\* tools.Execute(ctx, tc, l.events) for the next tool call: the tool may
\* send an event of its own; an error ends the run
LoopExecute ==
    /\ lp.pc = "execute"
    /\ \E err \in BOOLEAN, ev \in BOOLEAN :
        LET sent == IF ev THEN Emit(lp, "Tool") ELSE lp
            done == [Add(sent, "tool") EXCEPT !.toolCalls = @ - 1]
        IN  lp' = IF err THEN LoopReturn(sent, "tools.Execute")
                  ELSE IF done.toolCalls > 0 THEN done
                  ELSE [done EXCEPT !.pc = "for", !.i = @ + 1]
    /\ UNCHANGED <<fs, lstatErr, rIn, rOut, walk, cache, proc, extLeft, log, sto, ctxs, bin, extLast, ex>>

\* the deferred function: the DoneEvent; then Run has returned
LoopDefer ==
    /\ lp.pc = "defer"
    /\ lp' = [Emit(lp, "Done") EXCEPT !.pc = "returned"]
    /\ UNCHANGED <<fs, lstatErr, rIn, rOut, walk, cache, proc, extLeft, log, sto, ctxs, bin, extLast, ex>>

LoopStep == LoopRun \/ LoopHead \/ LoopGenerate \/ LoopExecute \/ LoopDefer

NextLoop == LoopStep \/ LoopCancel

SpecLoop == InitStore /\ [][NextLoop]_vars

\* Run keeps running: the provider and the tools return
SpecLoopFair == SpecLoop /\ WF_vars(LoopStep)

(***************************************************************************)
(* ExecuteWithTimeout(ctx, command, timeout, gracefulShutdownMs, proc)     *)
(***************************************************************************)

\* what proc.Wait can return
WaitResults == {"nil", "exit status 1"}

\* the call: the channel done is made and the goroutine that sends
\* proc.Wait() on it is started
ExecCall ==
    /\ ex.pc = "none"
    /\ \E err \in WaitResults : ex' = [ex EXCEPT !.pc = "select", !.waitErr = err]
    /\ UNCHANGED <<fs, lstatErr, rIn, rOut, walk, cache, proc, extLeft, log, sto, ctxs, bin, extLast, lp>>

\* the process, started before the call, exits, and the goroutine sends its
\* Wait result on done; a select waiting for it takes that case
ProcExit ==
    /\ ex.pc # "returned" /\ ~ex.exited
    /\ ex' = [ex EXCEPT !.exited = TRUE, !.order = Append(@, "exit"),
                        !.pc = IF @ = "parked" THEN "case done"
                               ELSE IF @ = "parked2" THEN "case done2" ELSE @]
    /\ UNCHANGED <<fs, lstatErr, rIn, rOut, walk, cache, proc, extLeft, log, sto, ctxs, bin, extLast, lp>>

\* the context is cancelled, before the call or during it; the outer select,
\* when waiting, takes that case
CtxCancel ==
    /\ ex.pc # "returned" /\ ~ex.cancelled
    /\ ex' = [ex EXCEPT !.cancelled = TRUE, !.order = Append(@, "cancel"),
                        !.pc = IF @ = "parked" THEN "case ctx" ELSE @]
    /\ UNCHANGED <<fs, lstatErr, rIn, rOut, walk, cache, proc, extLeft, log, sto, ctxs, bin, extLast, lp>>

\* time.After(timeout) fires while the outer select waits
TimeoutFires ==
    /\ ex.pc = "parked"
    /\ ex' = [ex EXCEPT !.order = Append(@, "timeout"), !.pc = "case timeout"]
    /\ UNCHANGED <<fs, lstatErr, rIn, rOut, walk, cache, proc, extLeft, log, sto, ctxs, bin, extLast, lp>>

\* time.After(grace) fires while the inner select waits
GraceFires ==
    /\ ex.pc = "parked2"
    /\ ex' = [ex EXCEPT !.order = Append(@, "grace"), !.pc = "case grace"]
    /\ UNCHANGED <<fs, lstatErr, rIn, rOut, walk, cache, proc, extLeft, log, sto, ctxs, bin, extLast, lp>>

\* the outer select is entered: of the cases that are ready one is taken, any
\* of them; with none ready the goroutine waits
ExecSelect ==
    /\ ex.pc = "select"
    /\ LET ready == {c \in {"case done", "case ctx"} :
                        \/ c = "case done" /\ ex.exited
                        \/ c = "case ctx" /\ ex.cancelled}
       IN  IF ready = {}
           THEN ex' = [ex EXCEPT !.pc = "parked", !.waited = TRUE]
           ELSE \E c \in ready : ex' = [ex EXCEPT !.pc = c]
    /\ UNCHANGED <<fs, lstatErr, rIn, rOut, walk, cache, proc, extLeft, log, sto, ctxs, bin, extLast, lp>>

\* case err := <-done: return err
ExecReturnWait ==
    /\ ex.pc = "case done"
    /\ ex' = [ex EXCEPT !.pc = "returned", !.ret = ex.waitErr]
    /\ UNCHANGED <<fs, lstatErr, rIn, rOut, walk, cache, proc, extLeft, log, sto, ctxs, bin, extLast, lp>>

\* case <-ctx.Done(): proc.Kill(); return ctx.Err()
ExecKillCancelled ==
    /\ ex.pc = "case ctx"
    /\ ex' = [ex EXCEPT !.pc = "returned", !.calls = Append(@, "Kill"),
                        !.ret = "ctx.Err"]
    /\ UNCHANGED <<fs, lstatErr, rIn, rOut, walk, cache, proc, extLeft, log, sto, ctxs, bin, extLast, lp>>

\* a timeout case that kills the process at once
ExecKillAtTimeout ==
    /\ ex.pc = "case timeout"
    /\ ex' = [ex EXCEPT !.pc = "returned", !.calls = Append(@, "Kill"),
                        !.ret = "timeout"]
    /\ UNCHANGED <<fs, lstatErr, rIn, rOut, walk, cache, proc, extLeft, log, sto, ctxs, bin, extLast, lp>>

\* case <-time.After(timeout): proc.Signal(os.Interrupt), then the inner
\* select is entered: done when the process has exited by now, else wait
ExecSignal ==
    /\ ex.pc = "case timeout"
    /\ ex' = [ex EXCEPT !.calls = Append(@, "Signal"),
                        !.pc = IF ex.exited THEN "case done2" ELSE "parked2"]
    /\ UNCHANGED <<fs, lstatErr, rIn, rOut, walk, cache, proc, extLeft, log, sto, ctxs, bin, extLast, lp>>

\* inner case <-done: return the timeout error
ExecReturnTimeout ==
    /\ ex.pc = "case done2"
    /\ ex' = [ex EXCEPT !.pc = "returned", !.ret = "timeout"]
    /\ UNCHANGED <<fs, lstatErr, rIn, rOut, walk, cache, proc, extLeft, log, sto, ctxs, bin, extLast, lp>>

\* inner case <-time.After(grace): proc.Kill(); return the timeout error
ExecKillAfterGrace ==
    /\ ex.pc = "case grace"
    /\ ex' = [ex EXCEPT !.pc = "returned", !.calls = Append(@, "Kill"),
                        !.ret = "timeout"]
    /\ UNCHANGED <<fs, lstatErr, rIn, rOut, walk, cache, proc, extLeft, log, sto, ctxs, bin, extLast, lp>>

NextExec ==
    \/ ExecCall \/ ProcExit \/ CtxCancel \/ TimeoutFires \/ GraceFires
    \/ ExecSelect \/ ExecReturnWait \/ ExecKillCancelled \/ ExecSignal
    \/ ExecReturnTimeout \/ ExecKillAfterGrace

SpecExec == InitStore /\ [][NextExec]_vars

(***************************************************************************)
(* Properties of Resolve, checked under SpecResolve                        *)
(***************************************************************************)

\* C1: whatever the filesystem and the input path, Resolve fails or returns
\* the workspace root or a path that has root + separator as a string prefix;
\* in particular the sibling /w2 of the root /w is never returned.
C1_Containment ==
    rOut.err = "none" =>
        \/ rOut.abs = WorkspaceRoot
        \/ HasPrefix(PathStr(rOut.abs), PathStr(WorkspaceRoot) \o <<"/">>)

\* C1 happens: a call through a symlink was accepted with a descendant of the
\* root
C1_Accepted ==
    /\ rOut.err = "none"
    /\ rIn.parts = <<"l1">>
    /\ Node(<<"w", "l1">>).kind = "link"
    /\ Len(rOut.abs) > 1

\* the accepted path names no symlink and the operating system, following it,
\* arrives inside the workspace root
SymlinkResolved(abs) ==
    /\ \A k \in 1..Len(abs) : Node(Prefix(abs, k)).kind # "link"
    /\ Inside(RealLoc(abs, TRUE).loc)

\* C2: every path Resolve accepts is symlink-resolved: none of its existing
\* components is a symlink and the location the operating system reaches
\* through it lies inside the workspace root.
C2_SymlinkResolved == rOut.err = "none" => SymlinkResolved(rOut.abs)

\* the targets of the hops of the symlink chain that starts at p, as the
\* operating system stores them (a chain ends at its first repetition)
RECURSIVE ChainTargets(_, _)
ChainTargets(p, seen) ==
    IF p \in seen \/ Lstat(p).node.kind # "link" THEN {}
    ELSE LET Next1(t) == {t} \cup ChainTargets(t, seen \cup {p})
         IN  Next1(IF Lstat(p).node.target.abs
                   THEN CleanFrom(<<>>, Lstat(p).node.target.parts, TRUE)
                   ELSE JoinAbs(Dir(p), Lstat(p).node.target.parts))

\* the first component of the last input is one of the symlink slots
ThroughSlot ==
    /\ rOut.err # "unset"
    /\ ~rIn.tilde /\ ~rIn.abs
    /\ rIn.parts # <<>> /\ Head(rIn.parts) \in {"l1", "l2"}

\* C5: when a hop of the symlink chain of the first component of the input
\* has its target outside the workspace root, Resolve fails with
\* OutsideWorkspace, whatever the later hops point to.
C5_PerHop ==
    (ThroughSlot /\ \E t \in ChainTargets(<<"w", Head(rIn.parts)>>, {}) : ~Inside(t))
        => rOut.err = "OutsideWorkspace"

\* C5 happens: /w/l1 points to /o/b outside, /o/b points back to /w/f, and
\* the call was rejected
C5_TransientEscape ==
    /\ ThroughSlot
    /\ rIn.parts = <<"l1">>
    /\ ChainTargets(<<"w", "l1">>, {}) = {<<"o", "b">>, <<"w", "f">>}
    /\ rOut.err = "OutsideWorkspace"

(***************************************************************************)
(* Properties of the Read, Write and Edit calls                            *)
(***************************************************************************)

\* C3: no call reads, writes or makes a directory at a location outside the
\* workspace root, whatever the other actors do to the filesystem meanwhile.
C3_NoOutsideAccess == \A p \in Procs : proc[p].esc = {}

ExternallyChanged(p) ==
    /\ proc[p].kind = "edit"
    /\ proc[p].stale
    /\ \A q \in Procs \ {p} : proc[q].pc = "idle"

SamePathEdits(p, q) ==
    /\ p # q
    /\ proc[p].kind = "edit" /\ proc[q].kind = "edit"
    /\ proc[p].pc \notin {"idle", "resolve"} /\ proc[q].pc \notin {"idle", "resolve"}
    /\ proc[p].abs = proc[q].abs

\* the rename of q's atomic write has put q's content at the path, where it
\* still is
Landed(q) ==
    /\ proc[q].aw
    /\ proc[q].pc \in {"aw_chmod", "cache", "done"}
    /\ proc[q].failedAt \in {"none", "chmod"}
    /\ Stat(proc[q].abs).node.content = proc[q].newc

\* C7 as stated: two Edit calls on the same path never both return success
\* after reading the same content, the change of one overwritten by the other.
C7_NoLostUpdate ==
    \A p, q \in Procs :
        SamePathEdits(p, q) =>
            ~(/\ proc[p].result = "ok" /\ proc[q].result = "ok"
              /\ proc[p].c0 = proc[q].c0
              /\ proc[p].newc # proc[p].c0 /\ proc[q].newc # proc[q].c0)

\* C7 amended: of two Edit calls on the same path, the one that makes its
\* conflict check after the other has returned, or its revalidation read after
\* the other's rename has landed, having first read the content from before
\* the other's change, fails with EditConflict at that step.
C7_LoserSeesConflict ==
    [][\A p, q \in Procs :
          (/\ SamePathEdits(p, q)
           /\ proc[q].newc # proc[p].c0
           /\ \/ /\ proc[p].pc = "reval"
                 /\ Landed(q)
              \/ /\ proc[p].pc = "get"
                 /\ proc[q].result = "ok"
                 /\ proc[p].abs \in DOMAIN cache
                 /\ cache[proc[p].abs] = computeChecksum(proc[q].newc)
           /\ proc'[p] # proc[p])
          => (proc'[p].pc = "done" /\ proc'[p].result = "EditConflict")]_vars

\* C7 happens: caller 1 revalidated after caller 2's rename had landed and
\* got EditConflict
C7_LoserRejected ==
    /\ SamePathEdits(1, 2)
    /\ Landed(2)
    /\ proc[1].revalidated
    /\ proc[1].cReval = proc[2].newc
    /\ proc[1].result = "EditConflict"

\* C8: an Edit that found a cached checksum starts the atomic write only
\* after a second read whose content equals the first one, and ends with
\* EditConflict, nothing written, when the second read differs; an Edit that
\* found no cached checksum reads the file once and never ends with
\* EditConflict.
C8_Revalidation ==
    \A p \in Procs :
        proc[p].kind = "edit" =>
            /\ (proc[p].ok /\ proc[p].aw) =>
                   (proc[p].revalidated /\ proc[p].reads = 2
                    /\ computeChecksum(proc[p].cReval) = computeChecksum(proc[p].c0))
            /\ (proc[p].revalidated /\ proc[p].cReval # proc[p].c0) =>
                   (proc[p].pc = "done" /\ proc[p].result = "EditConflict"
                    /\ ~proc[p].aw /\ ~proc[p].mut)
            /\ ~proc[p].ok =>
                   (proc[p].reads <= 1 /\ ~proc[p].revalidated
                    /\ proc[p].result # "EditConflict")
            /\ (~proc[p].ok /\ proc[p].aw) => proc[p].reads = 1

\* C8 happens: the second read of an Edit found the file changed since the
\* first one
C8_ChangedBetweenReads ==
    /\ proc[1].kind = "edit"
    /\ proc[1].ok
    /\ proc[1].revalidated
    /\ proc[1].cReval # proc[1].c0
    /\ proc[1].result = "EditConflict"

\* C9: the step of a Write that finds something at its path ends the call
\* with FileExists and changes neither the filesystem nor the cache, whether
\* the new content equals the existing one or not.
C9_FileExists ==
    [][\A p \in Procs :
          (/\ proc[p].kind = "write"
           /\ proc[p].pc = "stat"
           /\ Stat(proc[p].abs).err = "none"
           /\ proc'[p] # proc[p])
          => (/\ proc'[p].pc = "done"
              /\ proc'[p].result = "FileExists"
              /\ ~proc'[p].mut /\ ~proc'[p].aw
              /\ fs' = fs
              /\ cache' = cache)]_vars

\* C9 happens: a Write of other content to the existing /w/f was rejected
C9_Rejected ==
    /\ proc[1].kind = "write"
    /\ proc[1].existed
    /\ proc[1].abs = <<"w", "f">>
    /\ proc[1].content # Node(<<"w", "f">>).content
    /\ proc[1].result = "FileExists"

(***************************************************************************)
(* Properties of writeFileAtomic, checked under SpecSeq                    *)
(***************************************************************************)

\* C10: when the atomic write has returned an error, the target is what it
\* was before the call (or still absent) and the temp file is gone.
C10_FailureLeavesTarget ==
    \A p \in Procs :
        (proc[p].aw /\ proc[p].pc = "done" /\ proc[p].failedAt # "none") =>
            /\ Lstat(proc[p].abs).node = proc[p].before
            /\ Lstat(TmpPath(p)).err = "notexist"

\* C11: while and after the atomic write of a call, the target path holds the
\* entry it held before the write (or none) or a file with the complete new
\* content, never a part of it.
C11_NoPartialContent ==
    \A p \in Procs :
        proc[p].aw =>
            \/ Lstat(proc[p].abs).node = proc[p].before
            \/ /\ Lstat(proc[p].abs).node.kind = "file"
               /\ Lstat(proc[p].abs).node.content = proc[p].newc

\* C11 happens: the temp file holds a proper part of the new content and
\* the target still holds the old content
C11_MidWrite ==
    /\ proc[1].pc = "aw_write"
    /\ proc[1].tmp \in DOMAIN fs
    /\ Len(fs[proc[1].tmp].content) > 0
    /\ Len(fs[proc[1].tmp].content) < Len(proc[1].newc)
    /\ proc[1].before.kind = "file"
    /\ Lstat(proc[1].abs).node = proc[1].before

\* the symlink chain that starts at p comes back to a path it has visited
RECURSIVE ChainCyclic(_, _)
ChainCyclic(p, seen) ==
    IF p \in seen THEN TRUE
    ELSE IF Lstat(p).node.kind # "link" THEN FALSE
    ELSE ChainCyclic(IF Lstat(p).node.target.abs
                     THEN CleanFrom(<<>>, Lstat(p).node.target.parts, TRUE)
                     ELSE JoinAbs(Dir(p), Lstat(p).node.target.parts),
                     seen \cup {p})

\* C12: every call of Resolve ends with a result, and when the symlink chain
\* of the first component of the input is cyclic with every target inside
\* the workspace root, the result is the SymlinkLoop error.
C12_LoopTerminates ==
    /\ rOut.err \in {"unset", "none", "OutsideWorkspace", "SymlinkLoop",
                     "SymlinkChainTooLong", "IOError"}
    /\ (/\ ThroughSlot
        /\ ChainCyclic(<<"w", Head(rIn.parts)>>, {})
        /\ \A t \in ChainTargets(<<"w", Head(rIn.parts)>>, {}) : Inside(t))
           => rOut.err = "SymlinkLoop"

\* C12 happens: /w/l1 -> /w/l2 -> /w/l1 and Resolve("l1") ended with
\* SymlinkLoop
C12_TwoLinkLoop ==
    /\ rIn = UserPath(FALSE, FALSE, <<"l1">>)
    /\ Node(<<"w", "l1">>) = LinkNode(AbsT(<<"w", "l2">>))
    /\ Node(<<"w", "l2">>) = LinkNode(AbsT(<<"w", "l1">>))
    /\ rOut.err = "SymlinkLoop"

\* the number of symlinks in the filesystem
Hops == Cardinality({p \in DOMAIN fs : fs[p].kind = "link"})

\* where the chain /w/c1 -> ... ends
ChainEnd == CHOOSE e \in ChainEnds :
                Hops = 0 \/ fs[<<"w", CName(Hops)>>].target = AbsT(e)

LexicalAbs(path) ==
    IF path.tilde THEN JoinAbs(HomeDir, path.parts)
    ELSE IF path.abs THEN CleanFrom(<<>>, path.parts, TRUE)
    ELSE JoinAbs(WorkspaceRoot, CleanFrom(<<>>, path.parts, FALSE))

\* C14: a call of Resolve with a relative path whose ".." segments climb
\* above the workspace root, or with an absolute path outside the root, ends
\* with OutsideWorkspace, whether or not the outside path exists.
C14_EscapeAttempt ==
    (rOut.err # "unset" /\ ~isWithinWorkspace(LexicalAbs(rIn), WorkspaceRoot))
        => rOut.err = "OutsideWorkspace"

\* no component of the absolute path p is a symlink
NoLinksOn(p) == \A k \in 1..Len(p) : Node(SubSeq(p, 1, k)).kind # "link"

\* C15: when the walk of a link-free path reaches a component that does not
\* exist, Resolve succeeds and returns the whole path if that path is inside
\* the workspace root, and fails with OutsideWorkspace if it is outside.
C15_MissingComponents ==
    (/\ rOut.err # "unset"
     /\ NoLinksOn(LexicalAbs(rIn))
     /\ Lstat(LexicalAbs(rIn)).err = "notexist")
        => IF isWithinWorkspace(LexicalAbs(rIn), WorkspaceRoot)
           THEN rOut.err = "none" /\ rOut.abs = LexicalAbs(rIn)
           ELSE rOut.err = "OutsideWorkspace"

\* the Read call of caller p read its file from the start to the size that
\* Stat reported
FullRead(p) == proc[p].offset = 0 /\ Len(proc[p].data) = Len(proc[p].info.content)

\* C16: a step of a Read call changes the checksum cache only when the read
\* covered the entire file, and then it stores the checksum of the bytes
\* read under the resolved path; a partial Read leaves the cache unchanged.
C16_FullReadOnly ==
    [][\A p \in Procs :
          (proc[p].kind = "read" /\ proc'[p] # proc[p]) =>
              /\ cache' # cache => FullRead(p)
              /\ (proc[p].pc = "cache" /\ FullRead(p)) =>
                     cache' = (proc[p].abs :> computeChecksum(proc[p].data)) @@ cache
              /\ (proc[p].pc = "cache" /\ ~FullRead(p)) => cache' = cache]_vars

\* C16 happens: a Read of /w/f from offset 1 has returned and the cache
\* entry of /w/f is still the checksum of the whole file
C16_PartialRead ==
    /\ proc[1].kind = "read" /\ proc[1].pc = "done" /\ proc[1].result = "ok"
    /\ proc[1].abs = <<"w", "f">> /\ proc[1].offset = 1 /\ proc[1].data = <<"b">>
    /\ <<"w", "f">> \in DOMAIN cache
    /\ cache[<<"w", "f">>] = computeChecksum(<<"a", "b">>)

Expected(op) == IF op.expectedReplacements = 0 THEN 1 ELSE op.expectedReplacements

\* an Edit call of caller p has returned after reading the file
EditDone(p) == proc[p].kind = "edit" /\ proc[p].pc = "done" /\ proc[p].reads >= 1

\* C18: a successful Edit of two operations has counted and replaced the
\* first operation on the content read and the second on the result of the
\* first, and the file holds the result of the second.
C18_OpsInOrder ==
    \A p \in Procs :
        (EditDone(p) /\ proc[p].result = "ok" /\ Len(proc[p].ops) = 2) =>
            LET o1 == proc[p].ops[1]
                o2 == proc[p].ops[2]
                mid == Replace(proc[p].c0, o1.before, o1.after, Expected(o1))
            IN  /\ Count(proc[p].c0, o1.before) = Expected(o1)
                /\ Count(mid, o2.before) = Expected(o2)
                /\ proc[p].newc = Replace(mid, o2.before, o2.after, Expected(o2))
                /\ Lstat(proc[p].abs).node.content = proc[p].newc

\* C18 happens: on "ab" the request [a -> b once, b -> "" twice] succeeded
\* and left the file empty; the second operation matches twice only on
\* the result of the first
C18_SecondOpOnResult ==
    /\ EditDone(1) /\ proc[1].result = "ok"
    /\ proc[1].c0 = <<"a", "b">>
    /\ proc[1].ops = <<EditOp(<<"a">>, <<"b">>, 1), EditOp(<<"b">>, <<>>, 2)>>
    /\ Lstat(<<"w", "f">>).node.content = <<>>

\* C19: an Edit of one operation that has read content with no occurrence of
\* "before" fails with SnippetNotFound; with a non-zero number of occurrences
\* different from the expected count (1 when omitted) it fails with
\* ReplacementMismatch; otherwise it does not fail with either, and when it
\* succeeds exactly the expected number of occurrences has been replaced.
C19_ReplacementCounting ==
    \A p \in Procs :
        (EditDone(p) /\ Len(proc[p].ops) = 1) =>
            LET op == proc[p].ops[1]
                count == Count(proc[p].c0, op.before)
            IN  /\ count = 0 => proc[p].result = "SnippetNotFound"
                /\ (count # 0 /\ count # Expected(op))
                       => proc[p].result = "ReplacementMismatch"
                /\ (count # 0 /\ count = Expected(op))
                       => /\ proc[p].result \notin {"SnippetNotFound", "ReplacementMismatch"}
                          /\ proc[p].result = "ok" =>
                                /\ Len(proc[p].newc) = Len(proc[p].c0)
                                       + Expected(op) * (Len(op.after) - Len(op.before))
                                /\ proc[p].newc = Replace(proc[p].c0, op.before, op.after,
                                                          Expected(op))
                                /\ Lstat(proc[p].abs).node.content = proc[p].newc

\* C19 happens: an operation without expectedReplacements replaced the
\* single occurrence of "a" in "ab"
C19_OmittedMeansOne ==
    /\ EditDone(1) /\ proc[1].result = "ok"
    /\ proc[1].c0 = <<"a", "b">>
    /\ proc[1].ops = <<EditOp(<<"a">>, <<>>, 0)>>
    /\ Lstat(<<"w", "f">>).node.content = <<"b">>

\* the k-th response is that of an Edit that repeats the successful Edit
\* answered just before it, whose result holds no occurrence of the "before"
\* of its first operation
RepeatedEdit(k) ==
    /\ log[k - 1].kind = "edit" /\ log[k - 1].result = "ok"
    /\ log[k].kind = "edit" /\ log[k].ops = log[k - 1].ops
    /\ log[k].abs = log[k - 1].abs
    /\ Count(log[k - 1].content, log[k].ops[1].before) = 0

\* C20: an Edit that repeats the successful Edit before it, whose result no
\* longer contains "before", fails with SnippetNotFound, and when it returns
\* the file and the cache entry are as the first Edit left them.
C20_EditIdempotence ==
    \A k \in 2..Len(log) :
        RepeatedEdit(k) =>
            /\ log[k].result = "SnippetNotFound"
            /\ (k = Len(log) /\ proc[1].pc = "idle") =>
                   /\ Lstat(log[k].abs).node = log[k - 1].left
                   /\ log[k - 1].left.content = log[k - 1].content
                   /\ log[k].abs \in DOMAIN cache
                   /\ cache[log[k].abs] = log[k - 1].sum
                   /\ log[k - 1].sum = computeChecksum(log[k - 1].content)

\* C20 happens: Edit a -> b succeeded on /w/n ("ab" became "bb"), the same
\* Edit was issued again and has returned SnippetNotFound
C20_SecondEditRejected ==
    /\ Len(log) >= 2 /\ proc[1].pc = "idle"
    /\ RepeatedEdit(Len(log))
    /\ log[Len(log)].result = "SnippetNotFound"
    /\ Lstat(<<"w", "n">>).node.content = <<"b", "b">>

\* C21: when an Edit has succeeded, the file holds the new content with the
\* permission bits that Stat reported at the start of the call; they are
\* not reset to the default.
C21_PermissionPreserved ==
    \A p \in Procs :
        (proc[p].kind = "edit" /\ proc[p].pc = "done" /\ proc[p].result = "ok") =>
            /\ Lstat(proc[p].abs).node.kind = "file"
            /\ Lstat(proc[p].abs).node.content = proc[p].newc
            /\ Lstat(proc[p].abs).node.perm = proc[p].info.perm
            /\ proc[p].info.perm = StartFs[proc[p].abs].perm

\* C21 happens: /w/d/f, whose permission is not the default, has been edited
C21_EditedNonDefault ==
    /\ proc[1].kind = "edit" /\ proc[1].pc = "done" /\ proc[1].result = "ok"
    /\ proc[1].abs = <<"w", "d", "f">>
    /\ StartFs[<<"w", "d", "f">>].perm # DefaultPerm
    /\ Lstat(<<"w", "d", "f">>).node = FileNode(<<"b", "b">>, StartFs[<<"w", "d", "f">>].perm)

\* t occurs in l
Within(t, l) == \E i \in 0..(Len(l) - Len(t)) : SubSeq(l, i + 1, i + Len(t)) = t

\* the number of line breaks among the first n bytes of c
BreaksBefore(c, n) == Cardinality({ i \in 1..n : i <= Len(c) /\ c[i] = LF })

\* C22: a Read that succeeded numbers its first line 1 when the offset is 0
\* and 1 plus the number of line breaks in the first "offset" bytes of the
\* file otherwise, and every line it emits carries the number of the line
\* of the full file that contains it.
C22_LineNumbering ==
    \A p \in Procs :
        (proc[p].kind = "read" /\ proc[p].pc = "done" /\ proc[p].result = "ok") =>
            LET whole == Lstat(proc[p].abs).node.content
                part == formatFileContent(proc[p].data, proc[p].startLine)
                full == formatFileContent(whole, 1)
            IN  /\ proc[p].startLine = 1 + BreaksBefore(whole, proc[p].offset)
                /\ proc[p].offset = 0 => proc[p].startLine = 1
                /\ \A i \in 1..Len(part) :
                       \E j \in 1..Len(full) :
                           /\ full[j].lineNum = part[i].lineNum
                           /\ Within(part[i].line, full[j].line)
                           /\ (1 < i /\ i < Len(part)) => part[i].line = full[j].line

\* C22 happens: a Read of "a\na" from offset 2 has numbered its line 2
C22_SecondLine ==
    /\ proc[1].kind = "read" /\ proc[1].pc = "done" /\ proc[1].result = "ok"
    /\ Lstat(<<"w", "f">>).node.content = <<"a", LF, "a">>
    /\ proc[1].offset = 2
    /\ formatFileContent(proc[1].data, proc[1].startLine)
           = <<[lineNum |-> 2, line |-> <<"a">>]>>

\* C23: under every interleaving of Get, Update and Clear by two callers, no
\* reader holds the lock together with a writer, a Get returns for its path
\* what the most recent Update that released the lock left, or "not found"
\* after a Clear or without an Update, never a half-assigned value, and
\* whenever no writer holds the lock the store holds every update made.
C23_StoreSerialized ==
    /\ ~(sto.w # 0 /\ sto.r # {})
    /\ sto.w = 0 => cache = sto.lin
    /\ \A p \in Procs :
           (sto.call[p].kind = "get" /\ sto.call[p].pc \in {"unlock", "idle"}) =>
               /\ sto.call[p].ret = sto.call[p].expect
               /\ sto.call[p].ret.sum # Torn

\* C23 happens: caller 1 is in the middle of an Update of /w/f, caller 2 has
\* asked for /w/f and waits for the lock
C23_GetWaits ==
    /\ sto.call[1].kind = "update" /\ sto.call[1].pc = "assign"
    /\ sto.call[1].path = <<"w", "f">>
    /\ cache[<<"w", "f">>] = Torn
    /\ sto.call[2].kind = "get" /\ sto.call[2].pc = "lock"
    /\ sto.call[2].path = <<"w", "f">>

\* C24: a step of a Get leaves the store unchanged, a step of an Update
\* changes no entry but that of its path, the store changes in no step but
\* the assignment of an Update or a Clear, and after the assignment of a
\* Clear no path has an entry.
C24_EntriesStay ==
    [][\A p \in Procs :
          sto'.call[p] # sto.call[p] =>
              /\ sto.call[p].kind = "get" => cache' = cache
              /\ sto.call[p].kind = "update" =>
                     \A q \in StorePaths \ {sto.call[p].path} :
                         Lookup(cache', q) = Lookup(cache, q)
              /\ cache' # cache =>
                     /\ sto.call[p].kind \in {"update", "clear"}
                     /\ sto.call[p].pc \in {"write", "assign"}
              /\ (sto.call[p].kind = "clear" /\ sto.call[p].pc = "write") =>
                     \A q \in StorePaths : ~Lookup(cache', q).ok]_vars

\* C24 happens: the entry of /w/f was read by a Get after two calls of the
\* other caller, the second an Update of /w/n, and both entries are there
C24_EntryOutlivesOtherUpdate ==
    /\ sto.call[1].kind = "update" /\ sto.call[1].path = <<"w", "n">>
    /\ sto.call[1].pc = "idle" /\ sto.call[1].n = MaxStoreCalls
    /\ sto.call[2].kind = "get" /\ sto.call[2].path = <<"w", "f">>
    /\ sto.call[2].pc = "idle" /\ sto.call[2].n = 1
    /\ sto.call[2].ret = [ok |-> TRUE, sum |-> computeChecksum(<<"a">>)]
    /\ cache = (<<"w", "f">> :> computeChecksum(<<"a">>))
                 @@ (<<"w", "n">> :> computeChecksum(<<"b">>))

\* C25: a path used only through one workspace context is not found in the
\* checksum cache of any other context.
C25_CacheIsolation ==
    \A c \in 1..Len(ctxs.made), d \in 1..Len(ctxs.made) :
        c # d =>
            \A path \in ctxs.used[c] \ ctxs.used[d] :
                path \notin DOMAIN ctxs.heap[ctxs.made[d].ChecksumCache]

\* C25 happens: two contexts on the same root, /w/f written through the
\* first only and /w/n through the second only
C25_TwoContexts ==
    /\ Len(ctxs.made) = 2
    /\ ctxs.made[1].WorkspaceRoot = <<"w">> /\ ctxs.made[2].WorkspaceRoot = <<"w">>
    /\ ctxs.used[1] = { <<"w", "f">> } /\ ctxs.used[2] = { <<"w", "n">> }
    /\ DOMAIN ctxs.heap[ctxs.made[1].ChecksumCache] = { <<"w", "f">> }
    /\ DOMAIN ctxs.heap[ctxs.made[2].ChecksumCache] = { <<"w", "n">> }

\* a content starts with a UTF-16 or UTF-32 byte order mark
StartsWithBOM(content) ==
    \/ /\ Len(content) >= 2
       /\ <<content[1], content[2]>> \in { <<xFF, xFE>>, <<xFE, xFF>> }
    \/ /\ Len(content) >= 4
       /\ <<content[1], content[2], content[3], content[4]>>
              \in { <<xFF, xFE, NUL, NUL>>, <<NUL, NUL, xFE, xFF>> }

\* a NUL byte lies within the first BinaryDetectionSampleSize bytes
NulInSample(content) ==
    \E i \in 1..Len(content) : i <= BinaryDetectionSampleSize /\ content[i] = NUL

\* C26: a content is detected as binary exactly when a NUL byte lies within
\* the sampled bytes and the content starts with no byte order mark, by
\* either detector.
C26_BinaryDetection ==
    bin.asked =>
        /\ bin.services <=> (NulInSample(bin.content) /\ ~StartsWithBOM(bin.content))
        /\ bin.tools <=> (NulInSample(bin.content) /\ ~StartsWithBOM(bin.content))

\* C26 for the detector of package services alone
C26_ServicesDetector ==
    bin.asked =>
        (bin.services <=> (NulInSample(bin.content) /\ ~StartsWithBOM(bin.content)))

\* C26 away from byte order marks, for the detector of package tools
C26_ToolsDetectorNoBOM ==
    (bin.asked /\ ~StartsWithBOM(bin.content)) =>
        (bin.tools <=> NulInSample(bin.content))

\* UTF-16 LE text is detected as binary by the detector of package tools
C26_BOMTextBinary ==
    /\ bin.asked /\ bin.content = <<xFF, xFE, "a", NUL>>
    /\ bin.tools /\ ~bin.services

\* a NUL byte at index BinaryDetectionSampleSize is ignored by both detectors
C26_NulBeyondSample ==
    /\ bin.asked /\ Len(bin.content) = BinaryDetectionSampleSize + 1
    /\ bin.content[BinaryDetectionSampleSize + 1] = NUL
    /\ ~bin.tools /\ ~bin.services

\* the relative path as Resolve returns it: filepath.ToSlash(rel), and the
\* empty string for "."
RelReturned(rel) == IF RelStr(rel) = <<".">> THEN <<>> ELSE RelStr(rel)

\* C27: the relative path of a successful Resolve is made of non-empty
\* segments joined by forward slashes, none of them "..", leads from the
\* workspace root to the absolute path, and is empty exactly when the
\* absolute path is the workspace root.
C27_RelativeForm ==
    rOut.err = "none" =>
        /\ \A k \in 1..Len(rOut.rel) : rOut.rel[k] \notin {"..", ".", ""}
        /\ Count(RelReturned(rOut.rel), <<"/">>)
              = Len(rOut.rel) - (IF rOut.rel = <<>> THEN 0 ELSE 1)
        /\ Count(RelReturned(rOut.rel), <<".", ".">>) = 0
        /\ rOut.abs = JoinAbs(WorkspaceRoot, rOut.rel)
        /\ (RelReturned(rOut.rel) = <<>>) <=> (rOut.abs = WorkspaceRoot)

\* C27 happens: a path with a ".." segment resolves to the workspace root
C27_RootItself ==
    /\ rOut.err = "none" /\ rOut.abs = WorkspaceRoot /\ RelReturned(rOut.rel) = <<>>
    /\ \E k \in 1..Len(rIn.parts) : rIn.parts[k] = ".."

\* what the kernel finds at the path a call was given
Target(p) == Stat(JoinAbs(WorkspaceRoot, proc[p].path.parts))

\* a Read of caller p has returned, on a missing path / on a directory
MissingRead(p) ==
    /\ proc[p].kind = "read" /\ proc[p].pc = "done"
    /\ Target(p).err = "notexist"
DirectoryRead(p) ==
    /\ proc[p].kind = "read" /\ proc[p].pc = "done"
    /\ Target(p).err = "none" /\ Target(p).node.kind = "dir"

\* no step of a Read on a missing path or on a directory changes the cache
ReadLeavesCache ==
    [][(/\ proc[1].kind = "read"
        /\ \/ Target(1).err = "notexist"
           \/ Target(1).err = "none" /\ Target(1).node.kind = "dir")
          => cache' = cache]_vars

\* C28: a Read of a missing path fails with FileMissing and a Read of a
\* directory fails; neither reads any content nor changes the checksum cache.
C28_ReadMissingOrDirectory ==
    /\ [](MissingRead(1) =>
            /\ proc[1].result = "FileMissing"
            /\ proc[1].reads = 0 /\ proc[1].data = <<>>)
    /\ [](DirectoryRead(1) =>
            /\ proc[1].result \notin {"ok", "none"}
            /\ proc[1].reads = 0 /\ proc[1].data = <<>>)
    /\ ReadLeavesCache

\* C28 but for the error value: both Reads fail, read nothing and leave the
\* cache alone
C28_ReadFailsUntouched ==
    /\ []((MissingRead(1) \/ DirectoryRead(1)) =>
            /\ proc[1].result \notin {"ok", "none"}
            /\ proc[1].reads = 0 /\ proc[1].data = <<>>)
    /\ ReadLeavesCache

\* the Read of the missing /w/n has failed at Stat with the wrapped error of
\* the operating system
C28_StatErrorReturned ==
    /\ MissingRead(1) /\ proc[1].abs = <<"w", "n">>
    /\ proc[1].result = "NotExist" /\ proc[1].reads = 0

\* the Read of the directory /w/d has failed
C28_DirectoryRejected ==
    /\ DirectoryRead(1) /\ proc[1].abs = <<"w", "d">>
    /\ proc[1].result = "IsDirectory" /\ proc[1].reads = 0

\* C29: a Write that reaches the content checks ends with BinaryFile when
\* its content is binary and with TooLarge when its content is longer than
\* the maximum file size, and goes on to write when the content is text of
\* at most the maximum size; after a rejection there is no file at the path
\* and no checksum stored for it.
C29_WriteRejections ==
    /\ [](\A p \in Procs :
            (/\ proc[p].kind = "write" /\ proc[p].pc = "done"
             /\ proc[p].result \in {"BinaryFile", "TooLarge"})
            => (/\ Lstat(proc[p].abs).err = "notexist"
                /\ proc[p].abs \notin DOMAIN cache
                /\ ~proc[p].aw))
    /\ [][\A p \in Procs :
            (/\ proc[p].kind = "write" /\ proc[p].pc \in {"mkdir", "check"}
             /\ proc'[p] # proc[p] /\ proc'[p].result # "IOError")
            => (/\ IsBinaryContent(proc[p].content)
                    => (proc'[p].pc = "done" /\ proc'[p].result = "BinaryFile")
                /\ (~IsBinaryContent(proc[p].content)
                     /\ Len(proc[p].content) > MaxFileSize)
                    => (proc'[p].pc = "done" /\ proc'[p].result = "TooLarge")
                /\ (~IsBinaryContent(proc[p].content)
                     /\ Len(proc[p].content) <= MaxFileSize)
                    => proc'[p].pc = "aw_create"
                /\ cache' = cache)]_vars

\* C29 happens: the Write of one byte more than the maximum to the new /w/n
\* was rejected
C29_OneByteTooLong ==
    /\ proc[1].kind = "write" /\ proc[1].pc = "done"
    /\ proc[1].abs = <<"w", "n">> /\ Len(proc[1].content) = MaxFileSize + 1
    /\ proc[1].result = "TooLarge"
    /\ Lstat(<<"w", "n">>).err = "notexist"

\* the Write of exactly the maximum size to the new /w/n has succeeded
C29_ExactlyMaxWritten ==
    /\ proc[1].kind = "write" /\ proc[1].pc = "done" /\ proc[1].result = "ok"
    /\ Len(proc[1].content) = MaxFileSize
    /\ Lstat(<<"w", "n">>).node.kind = "file"
    /\ Lstat(<<"w", "n">>).node.content = proc[1].content

\* the Write of binary content to the new /w/n was rejected
C29_BinaryRejected ==
    /\ proc[1].kind = "write" /\ proc[1].pc = "done"
    /\ proc[1].abs = <<"w", "n">> /\ IsBinaryContent(proc[1].content)
    /\ proc[1].result = "BinaryFile"
    /\ Lstat(<<"w", "n">>).err = "notexist"

\* C30: the temp file has the requested permission when it is renamed over
\* the target, so whenever the target holds the new content of an atomic
\* write it has the requested permission.
C30_ChmodBeforeRename ==
    /\ [][\A p \in Procs :
            (proc[p].pc = "aw_rename" /\ proc'[p].pc = "aw_chmod")
            => Lstat(TmpPath(p)).node.perm = proc[p].wperm]_vars
    /\ [](\A p \in Procs :
            (/\ proc[p].aw
             /\ Lstat(proc[p].abs).node # proc[p].before
             /\ Lstat(proc[p].abs).node.kind = "file"
             /\ Lstat(proc[p].abs).node.content = proc[p].newc)
            => Lstat(proc[p].abs).node.perm = proc[p].wperm)

\* the rename of a Write has put the new content at /w/n with the permission
\* of the temp file, the chmod to the requested permission still to come
C30_NewContentTempPerm ==
    /\ proc[1].kind = "write" /\ proc[1].pc = "aw_chmod"
    /\ proc[1].abs = <<"w", "n">> /\ proc[1].wperm = DefaultPerm
    /\ Lstat(<<"w", "n">>).node.content = proc[1].newc
    /\ Lstat(<<"w", "n">>).node.perm = TmpPerm

\* C30 once the call has returned without an error: the target holds the
\* new content with the requested permission
C30_RequestedPermInTheEnd ==
    \A p \in Procs :
        (proc[p].aw /\ proc[p].pc = "done" /\ proc[p].result = "ok") =>
            /\ Lstat(proc[p].abs).node.content = proc[p].newc
            /\ Lstat(proc[p].abs).node.perm = proc[p].wperm

\* the steps of an Edit between its revalidation read and its rename
AfterReval == {"aw_create", "aw_write", "aw_sync", "aw_close", "aw_rename"}

\* another program rewrote /w/f while the Edit of caller 1, revalidation
\* done, had not yet renamed its temp file over it
ChangedAfterReval ==
    /\ proc[1].kind = "edit" /\ proc[1].abs = <<"w", "f">>
    /\ proc[1].revalidated
    /\ extLast.during \in AfterReval

\* C31: an Edit whose file another program rewrites after the revalidation
\* read and before the rename never reports EditConflict, and when it returns
\* success the file holds the Edit's content, the other program's gone.
C31_RaceWindow ==
    ChangedAfterReval =>
        /\ proc[1].result # "EditConflict"
        /\ (proc[1].pc = "done" /\ proc[1].result = "ok") =>
               /\ Lstat(<<"w", "f">>).node.content = proc[1].newc
               /\ proc[1].cReval = proc[1].c0
               /\ cache[<<"w", "f">>] = computeChecksum(proc[1].newc)

\* C31 happens: the Edit a->b of "ab" has returned success with "bb" in the
\* file, over the "b" another program wrote after the revalidation read
C31_LostExternalChange ==
    /\ ChangedAfterReval
    /\ proc[1].pc = "done" /\ proc[1].result = "ok"
    /\ proc[1].c0 = <<"a", "b">> /\ proc[1].newc = <<"b", "b">>
    /\ extLast.wrote = <<"b">> /\ extLast.over = <<"a", "b">>
    /\ Lstat(<<"w", "f">>).node.content = <<"b", "b">>

\* the Edit of caller p has returned an error
EditFailed(p) ==
    proc[p].kind = "edit" /\ proc[p].pc = "done" /\ proc[p].result # "ok"

\* the file of the Edit of caller p is as the call found it: what it read is
\* still there, with the node the atomic write found, and nothing else was
\* created or changed
FileAsBefore(p) ==
    /\ proc[p].reads >= 1 /\ proc[p].result \notin {"IOError", "BinaryFile"}
           => Lstat(proc[p].abs).node.content = proc[p].c0
    /\ proc[p].aw => Lstat(proc[p].abs).node = proc[p].before
    /\ ~proc[p].aw => ~proc[p].mut

\* no step of an Edit that does not end in success changes the cache
FailedEditLeavesCache ==
    [][\A p \in Procs :
          (proc[p].kind = "edit" /\ cache' # cache /\ proc'[p] # proc[p])
          => (proc'[p].pc = "done" /\ proc'[p].result = "ok")]_vars

C32_AllOrNothingBeforeRename ==
    /\ [](\A p \in Procs :
            (EditFailed(p) /\ proc[p].failedAt # "chmod") => FileAsBefore(p))
    /\ FailedEditLeavesCache

\* the Edit a->b of /w/f has returned a write error, the file holding "bb"
\* and the cache entry still the checksum of "ab"
C32_FailedEditWritten ==
    /\ EditFailed(1) /\ proc[1].failedAt = "chmod"
    /\ proc[1].abs = <<"w", "f">> /\ proc[1].c0 = <<"a", "b">>
    /\ Lstat(<<"w", "f">>).node.content = <<"b", "b">>
    /\ <<"w", "f">> \in DOMAIN cache
    /\ cache[<<"w", "f">>] = computeChecksum(<<"a", "b">>)

\* an Edit has failed with TooLarge on the content its operations produced,
\* the file untouched
C32_TooLargeResult ==
    /\ EditFailed(1) /\ proc[1].result = "TooLarge"
    /\ Lstat(proc[1].abs).node.content = proc[1].c0
    /\ ~proc[1].aw

\* the Write of caller p has returned an error
WriteFailed(p) ==
    proc[p].kind = "write" /\ proc[p].pc = "done" /\ proc[p].result # "ok"

\* C33: when a Write has failed, the filesystem is what it was before the
\* call: no file and no parent directory was created.
C33_FailedWriteLeavesNothing ==
    \A p \in Procs : WriteFailed(p) => fs = StartFs

\* C33 for the failures that come before EnsureParentDirs creates anything:
\* a path outside the workspace and an existing file
C33_EarlyFailureLeavesNothing ==
    \A p \in Procs :
        (WriteFailed(p) /\ proc[p].result \in {"OutsideWorkspace", "FileExists"})
            => fs = StartFs

\* C33 for rejected content: no file is created at the path, and nothing at
\* all when the parent directory was there already
C33_RejectionCreatesNoFile ==
    \A p \in Procs :
        (WriteFailed(p) /\ proc[p].result \in {"BinaryFile", "TooLarge"}) =>
            /\ Lstat(proc[p].abs).err = "notexist"
            /\ {q \in DOMAIN fs : fs[q].kind # "absent"}
                 \ {q \in DOMAIN StartFs : StartFs[q].kind # "absent"}
                   \subseteq {q \in DOMAIN fs : fs[q].kind = "dir"}
            /\ ~proc[p].mut => fs = StartFs

\* the Write of five bytes to /w/m/n was rejected as too large and has left
\* the new directory /w/m behind
C33_DirectoryLeftBehind ==
    /\ WriteFailed(1) /\ proc[1].result = "TooLarge"
    /\ proc[1].abs = <<"w", "m", "n">>
    /\ Lstat(<<"w", "m">>).node.kind = "dir"
    /\ <<"w", "m">> \notin DOMAIN StartFs
    /\ Lstat(<<"w", "m", "n">>).err = "notexist"

\* no call is in progress and no other program has touched the files
Quiet ==
    /\ \A p \in Procs : proc[p].pc \in {"idle", "done"}
    /\ extLeft = MaxExt

\* every cache entry is the checksum of the content its file holds now
CacheCurrent ==
    \A path \in DOMAIN cache :
        /\ Stat(path).err = "none" /\ Stat(path).node.kind = "file"
        /\ cache[path] = computeChecksum(Stat(path).node.content)

\* C34: when no other program modifies the files and every call has
\* returned, each checksum cache entry is the checksum of the current content
\* of its file.
C34_CacheConsistency == Quiet => CacheCurrent

\* C34 for calls that did not overlap and whose system calls all succeeded
C34_OneCallerNoWriteError ==
    (/\ Quiet /\ proc[2].pc = "idle" /\ proc[1].failedAt = "none") => CacheCurrent

\* two Edits of /w/f have overlapped and both returned success with no
\* system call failing: the file holds the content of one, the cache the
\* checksum of the other
C34_StaleAfterOverlap ==
    /\ Quiet
    /\ \A p \in Procs :
           /\ proc[p].kind = "edit" /\ proc[p].abs = <<"w", "f">>
           /\ proc[p].pc = "done" /\ proc[p].result = "ok"
    /\ Stat(<<"w", "f">>).node.content = proc[2].newc
    /\ cache[<<"w", "f">>] = computeChecksum(proc[1].newc)
    /\ proc[1].newc # proc[2].newc

\* both callers have run a Write of text of allowed size to the new /w/n to
\* its end, no system call of either failing
BothWrote ==
    \A p \in Procs :
        /\ proc[p].kind = "write" /\ proc[p].abs = <<"w", "n">>
        /\ ~IsBinaryContent(proc[p].content) /\ Len(proc[p].content) <= MaxFileSize
        /\ proc[p].pc = "done" /\ proc[p].failedAt = "none"

\* of two such Writes one at least succeeds, and one that fails fails with
\* FileExists
C35_SomeWriterWins ==
    BothWrote =>
        /\ \E p \in Procs : proc[p].result = "ok"
        /\ \A p \in Procs : proc[p].result \in {"ok", "FileExists"}
        /\ \E p \in Procs : /\ proc[p].result = "ok"
                            /\ Stat(<<"w", "n">>).node.content = proc[p].content

\* C35: of two Writes of the same new path, at most one returns success, the
\* other fails with FileExists, and the file holds the content of the
\* successful one.
C35_OneWriterWins ==
    BothWrote =>
        \E p \in Procs :
            /\ proc[p].result = "ok"
            /\ \A q \in Procs \ {p} : proc[q].result = "FileExists"
            /\ Stat(<<"w", "n">>).node.content = proc[p].content

\* both Writes of /w/n have returned success, the content of caller 1
\* overwritten by that of caller 2
C35_BothSucceeded ==
    /\ BothWrote
    /\ proc[1].result = "ok" /\ proc[2].result = "ok"
    /\ proc[1].content # proc[2].content
    /\ Stat(<<"w", "n">>).node.content = proc[2].content

\* the second Write started after the first had put its file in place and
\* was refused
C35_LateWriterRefused ==
    /\ BothWrote
    /\ proc[1].result = "ok" /\ proc[2].result = "FileExists"
    /\ Stat(<<"w", "n">>).node.content = proc[1].content

\* C36: Run returns; it calls the provider at most maxIterations times; past
\* the last iteration it appends the max-iterations message and returns the
\* max-iterations error, which it returns in no other case; and it returns
\* nil exactly in the iteration whose response has no tool calls.
C36_LoopTerminates ==
    /\ <>(lp.pc = "returned")
    /\ [](lp.calls <= lp.maxIterations /\ lp.i <= lp.maxIterations)
    /\ [][(lp.pc = "for" /\ lp'.pc # "for" /\ lp.i = lp.maxIterations)
            => (/\ lp'.ret = "max iterations reached"
                /\ lp'.session = Append(lp.session, MaxReachedMsg)
                /\ lp'.calls = lp.maxIterations)]_vars
    /\ [](lp.ret = "max iterations reached"
            => (/\ lp.i = lp.maxIterations /\ lp.calls = lp.maxIterations
                /\ Last(lp.session) = MaxReachedMsg))
    /\ [](lp.ret = "nil"
            => (/\ Last(lp.session) = "assistant" /\ lp.toolCalls = 0
                /\ lp.calls = lp.i + 1))
    /\ [][(lp.pc = "generate" /\ lp'.pc = "execute") => lp'.toolCalls > 0]_vars

\* C36 happens: with maxIterations 2 and tool calls in both responses, Run
\* has returned the max-iterations error after two provider calls
C36_MaxIterationsReached ==
    /\ lp.pc = "returned" /\ lp.maxIterations = 2
    /\ lp.ret = "max iterations reached" /\ lp.calls = 2
    /\ Last(lp.session) = MaxReachedMsg
    /\ Len(SelectSeq(lp.session, LAMBDA m : m = "assistant")) = 2

\* the number of events ev sent so far
Sent(ev) == Len(SelectSeq(lp.events, LAMBDA e : e = ev))

\* C37: with an events channel, a run that has returned has sent exactly one
\* DoneEvent, as its last event, and a run that has not returned none; a
\* ThinkingEvent is sent before each provider call; and when the context is
\* found cancelled at the head of an iteration, no provider call is made
\* any more and the cancellation message is the last message of the session.
C37_EventOrder ==
    /\ [](lp.hasEvents =>
            /\ lp.pc = "returned" => (Sent("Done") = 1 /\ Last(lp.events) = "Done")
            /\ lp.pc # "returned" => Sent("Done") = 0
            /\ lp.pc = "generate" => Last(lp.events) = "Thinking"
            /\ Sent("Thinking") = lp.calls + (IF lp.pc = "generate" THEN 1 ELSE 0))
    /\ [](~lp.hasEvents => lp.events = <<>>)
    /\ [][(/\ lp.pc = "for" /\ lp'.pc # "for"
            /\ lp.i < lp.maxIterations /\ lp.cancelled)
           => (/\ lp'.ret = "context canceled"
               /\ lp'.calls = lp.calls
               /\ Last(lp'.session) = CancelledMsg)]_vars
    /\ [][lp.ret # "none"
           => (lp'.calls = lp.calls /\ lp'.session = lp.session
               /\ lp'.ret = lp.ret)]_vars

\* C37 happens: a run with an events channel has ended on a tool error
\* after one provider call, the DoneEvent last
C37_DoneAfterToolError ==
    /\ lp.hasEvents /\ lp.pc = "returned" /\ lp.ret = "tools.Execute"
    /\ lp.calls = 1
    /\ Head(lp.events) = "Thinking" /\ Last(lp.events) = "Done"

\* the context was cancelled while the tools ran: the next iteration has
\* ended the run with the cancellation message and no further provider call
C37_CancelledBetweenIterations ==
    /\ lp.pc = "returned" /\ lp.ret = "context canceled"
    /\ lp.calls = 1 /\ lp.i = 1
    /\ Last(lp.session) = CancelledMsg

\* the first thing that happened to the process, the context and the timers
First(what) == ex.order # <<>> /\ Head(ex.order) = what

\* what happened before what (what without the other counts as before)
Before(a, b) ==
    \E k \in 1..Len(ex.order) :
        ex.order[k] = a /\ \A j \in 1..k : ex.order[j] # b

\* the answers of ExecuteWithTimeout to what happened first
ExecOutcome ==
    /\ First("exit") => (ex.ret = ex.waitErr /\ ex.calls = <<>>)
    /\ First("timeout") =>
           /\ ex.ret = "timeout"
           /\ ex.calls \in { <<"Signal">>, <<"Signal", "Kill">> }
           /\ ex.calls = <<"Signal", "Kill">> <=> Before("grace", "exit")
    /\ First("cancel") => (ex.ret = "ctx.Err" /\ ex.calls = <<"Kill">>)

\* C38 as stated: whichever of exit, timeout and cancellation comes first
\* decides what ExecuteWithTimeout returns and does to the process.
C38_FirstEventDecides == ex.pc = "returned" => ExecOutcome

\* C38 for a call whose select found nothing ready when it was entered:
\* whichever of exit, timeout and cancellation comes first decides; and in
\* every call the process is killed after a timeout only when the grace
\* period ran out before it exited, never killed before it was signalled
\* unless the context case was taken, and left alone when the Wait result is
\* returned.
C38_FirstEventDecidesWaiting ==
    ex.pc = "returned" =>
        /\ ex.waited => ExecOutcome
        /\ ex.ret \in WaitResults => (ex.calls = <<>> /\ ex.ret = ex.waitErr /\ ex.exited)
        /\ ex.ret = "ctx.Err" => (ex.calls = <<"Kill">> /\ ex.cancelled)
        /\ ex.ret = "timeout" =>
               /\ ex.calls \in { <<"Signal">>, <<"Signal", "Kill">> }
               /\ ex.calls = <<"Signal", "Kill">> <=> Before("grace", "exit")
        /\ ~ex.waited => ex.ret \in {ex.waitErr, "ctx.Err"}

\* C38 happens: the timeout came first, the process did not exit within the
\* grace period, and it was signalled, then killed
C38_KilledAfterGrace ==
    /\ ex.pc = "returned" /\ ex.waited
    /\ ex.order = <<"timeout", "grace">>
    /\ ex.calls = <<"Signal", "Kill">> /\ ex.ret = "timeout"

\* the context was cancelled, then the process exited, both before the
\* select was entered: the Wait result was returned and nothing killed
C38_CancelledYetWaitReturned ==
    /\ ex.pc = "returned" /\ ~ex.waited
    /\ ex.order = <<"cancel", "exit">>
    /\ ex.ret = ex.waitErr /\ ex.calls = <<>>

====
